---- MODULE Spec2Model ----
(***************************************************************************)
(* Order lifecycle of the Telegram order backend.                          *)
(*                                                                         *)
(* The persisted state is the pedidos table and the historial_estados      *)
(* table.  A state change is requested over REST (cambiar_estado_pedido)   *)
(* or by a bot callback (manejar_confirmacion, which calls                 *)
(* _cambiar_estado_pedido).  Each request works in its own SQLAlchemy      *)
(* session: it loads the order, changes the loaded object in memory and    *)
(* then commits.  The load and the commit are separate round trips to the  *)
(* database, so requests served by different worker processes interleave   *)
(* between the two.                                                        *)
(***************************************************************************)
EXTENDS Integers, Sequences, FiniteSets, TLC

\* ------------------------------------------------------------------ bounds
MaxPedidos == 1      \* orders ever created
MaxTime == 2         \* last reading of the clock: transitions ever started
MaxMensajes == 1     \* Telegram messages ever logged
MaxPropuestas == 2   \* longest list of proposed orders the classifier returns
MaxTokens == 3       \* refresh tokens ever created
MaxDias == 8         \* last day the clock of the tokens reaches
MaxFiltros == 3      \* saved filters ever created

\* -------------------------------------------------------------- vocabulary
\* NULL of a DateTime column; None of a text column or an optional field.
NULL == 0
None == "None"

PENDIENTE_CONFIRMACION == "pendiente_confirmacion"
CONFIRMADO == "confirmado"
EN_PREPARACION == "en_preparacion"
LISTO_PARA_RECOGER == "listo_para_recoger"
COMPLETADO == "completado"
CANCELADO == "cancelado"

EstadoPedidoEnum ==
    {PENDIENTE_CONFIRMACION, CONFIRMADO, EN_PREPARACION,
     LISTO_PARA_RECOGER, COMPLETADO, CANCELADO}

\* What a client can put in nuevo_estado: the six values and one other string.
EstadosSolicitados == EstadoPedidoEnum \cup {"bogus_state"}

\* CambiarEstadoPedido.nuevo_estado: the pattern of the request schema.
CambiarEstadoPedido(nuevo_estado) ==
    nuevo_estado \in {"pendiente_confirmacion", "confirmado", "en_preparacion",
                      "listo_para_recoger", "completado", "cancelado"}

\* manejar_confirmacion only ever asks for CONFIRMADO or CANCELADO.
EstadosDelBot == {CONFIRMADO, CANCELADO}

\* modificado_por of the history row: current_user.email or the bot's marker.
ModificadoPor(ruta) == IF ruta = "rest" THEN "staff@example.com" ELSE "telegram_bot"

Requests == {"r1", "r2"}

\* ------------------------------------------------------------------- state
VARIABLES
    pedidos,     \* table pedidos: row i is the order with id i
    historial,   \* table historial_estados, in insertion (id) order
    now,         \* the value datetime.utcnow() returns
    req          \* per request: where it is and what its session holds

\* Notifications.
VARIABLES
    tareas,          \* asyncio tasks enviar_notif() created and not yet run
    notificaciones,  \* table notificaciones_enviadas, in insertion order
    intentos,        \* the calls of bot.send_message made, with their outcome
    retorno          \* what the last call of enviar_notificacion_cambio_estado returned

\* Incoming messages.
VARIABLES
    logs,            \* table logs_mensajes, in insertion order
    chat             \* the message handler that is running, if any

\* Accounts and refresh tokens.
VARIABLES
    users,           \* table users: per account, whether it exists and is active
    tokens,          \* table refresh_tokens: row i holds the i-th token created
    utcnow,          \* the day datetime.utcnow() falls on
    auth,            \* per call of /api/auth: where it is and what it holds
    servidor,        \* "up" between startup_event and shutdown_event
    trabajos,        \* the jobs the scheduler holds
    canjes           \* the tokens for which /refresh has answered 200

acceso == <<users, tokens, utcnow, auth, servidor, trabajos, canjes>>

\* WebSocket clients, saved filters and exports.
VARIABLES
    sockets,             \* per WebSocket: where its endpoint is, and its client
    active_connections,  \* ConnectionManager.active_connections, in dict order
    difusion,            \* the fan-out that is running, if any
    filtros,             \* table filtros_guardados, in insertion order
    exportado            \* the last CSV file produced

otros == <<sockets, active_connections, difusion, filtros, exportado>>

\* What the lifecycle handlers never write.
externo == <<notificaciones, intentos, retorno, logs, chat, acceso, otros>>

\* What the WebSocket, filter and export handlers never write.
ajeno ==
    <<pedidos, historial, now, req, tareas,
      notificaciones, intentos, retorno, logs, chat, acceso>>

vars == <<pedidos, historial, now, req, tareas, externo>>

\* A new Pedido row: the column defaults; the three columns of the message
\* are filled in where the row is built.
Pedido ==
    [telegram_user_id |-> 0,
     mensaje_id |-> 0,
     resumen_items |-> "",
     estado |-> PENDIENTE_CONFIRMACION,
     notas_adicionales |-> None,
     asignado_a |-> None,
     fecha_confirmacion |-> NULL,
     fecha_preparacion |-> NULL,
     fecha_listo |-> NULL,
     fecha_completado |-> NULL,
     fecha_cancelado |-> NULL]

Columnas == DOMAIN Pedido

\* A HistorialEstado row.
HistorialEstado(pedido_id, estado_anterior, estado_nuevo, modificado_por) ==
    [pedido_id |-> pedido_id,
     estado_anterior |-> estado_anterior,
     estado_nuevo |-> estado_nuevo,
     modificado_por |-> modificado_por]

PedidoIds == 1..(MaxPedidos + 1)

Existe(pedido_id) == pedido_id \in 1..Len(pedidos)

\* A request that is not being served holds nothing.
\* pedido holds the attributes the handler assigned, cargado the values they
\* had when the row was loaded.
SinAsignar == [estado |-> "none", fecha |-> NULL]

Idle ==
    [pc |-> "idle", ruta |-> "none", pedido_id |-> 0, nuevo_estado |-> "none",
     cargado |-> SinAsignar, pedido |-> SinAsignar]

\* A request whose response is ready and has not gone out yet.
Respondiendo(r) == req[r].pc \notin {"idle", "cargado"}

\* No message is being handled.  analisis is what the classifier answered
\* and respuesta the last reply_text of the handler.
SinAnalisis == [texto |-> "none", es_pedido |-> "none", con_pedidos |-> FALSE, pedidos |-> <<>>]

Callado ==
    [pc |-> "idle", mensaje |-> [mensaje_id |-> 0, telegram_user_id |-> 0],
     tipo_mensaje |-> "none", log |-> 0, analisis |-> SinAnalisis, respuesta |-> "none"]

\* The accounts that sign up, and the calls of /api/auth that run at once:
\* the endpoints are plain `def`, so each runs on a thread of its own.
Usuarios == {1, 2}

Llamadas == {"a1", "a2"}

SinLlamada ==
    [pc |-> "idle", op |-> "none", token |-> 0, user_id |-> 0,
     revoco |-> FALSE, nuevo |-> 0]

\* The one job TelegramScheduler.start adds.
resumen_pedidos == [id |-> "resumen_pedidos", func |-> "enviar_resumen_pedidos"]

\* The WebSocket objects that reach /ws/pedidos; each is one connection.
Sockets == {"w1", "w2", "w3"}

\* The filtros_guardados table with the last id its key gave out, and the
\* request being answered: who called, what for, and the status and the row
\* of the response.
SinFila == [id |-> 0, usuario_id |-> 0, nombre |-> None, filtros_json |-> None,
            is_default |-> FALSE]

SinFiltros == [tabla |-> <<>>, ultimo |-> 0, pc |-> "idle", op |-> "none",
               usuario |-> 0, filtro_id |-> 0, status |-> 0, fila |-> SinFila]

SinConectar == [pc |-> "nuevo", token |-> "none", code |-> 0, user_id |-> 0, vivo |-> TRUE]

SinDifusion ==
    [pc |-> "idle", op |-> "none", claves |-> <<>>, k |-> 0, slot |-> 0, j |-> 0,
     ws |-> "none", n0 |-> 0, disconnected |-> <<>>, enviados |-> <<>>,
     inicial |-> {}, error |-> "none"]

\* Sending a response touches nothing shared, so it is taken as the step right
\* after the one that produced it: nothing else runs in between.
Libre ==
    /\ \A r \in Requests : ~Respondiendo(r)
    /\ chat.pc \in {"idle", "analizando"}

Init ==
    /\ pedidos = <<>>
    /\ historial = <<>>
    /\ now = 1
    /\ req = [r \in Requests |-> Idle]
    /\ tareas = <<>>
    /\ notificaciones = <<>>
    /\ intentos = <<>>
    /\ retorno = "none"
    /\ logs = <<>>
    /\ chat = Callado
    /\ users = [u \in Usuarios |-> "ausente"]
    /\ tokens = <<>>
    /\ utcnow = 0
    /\ auth = [a \in Llamadas |-> SinLlamada]
    /\ servidor = "up"
    /\ trabajos = {resumen_pedidos}
    /\ canjes = {}
    /\ sockets = [w \in Sockets |-> SinConectar]
    /\ active_connections = <<>>
    /\ difusion = SinDifusion
    /\ filtros = SinFiltros
    /\ exportado = <<>>

\* ------------------------------------------------------- creating an order
\* The Telegram messages that come in: message_id and effective_user.id.
Mensajes ==
    {[mensaje_id |-> 1, telegram_user_id |-> 101],
     [mensaje_id |-> 2, telegram_user_id |-> 102]}

\* The row procesar_mensaje builds for one proposed order of a message.
NuevoPedido(mensaje, resumen_items) ==
    [Pedido EXCEPT !.telegram_user_id = mensaje.telegram_user_id,
                   !.mensaje_id = mensaje.mensaje_id,
                   !.resumen_items = resumen_items]

\* procesar_mensaje, one pass of its loop: db.add(pedido), db.commit().
GuardarPedido(mensaje, resumen_items) ==
    /\ Libre
    /\ Len(pedidos) < MaxPedidos
    /\ pedidos' = Append(pedidos, NuevoPedido(mensaje, resumen_items))
    /\ UNCHANGED <<historial, now, req>>
    /\ UNCHANGED <<tareas, externo>>

\* ---------------------------------------------------------- editing fields
\* What PedidoUpdate can carry in each optional field.
PedidoUpdate == [notas_adicionales : {None, "nota"}, asignado_a : {None, "staff"}]

\* PUT /pedidos/{id}: a field that is not None replaces the column.  The
\* handler has no await between its query and its commit.
actualizar_pedido(pedido_id, pedido_update) ==
    /\ Libre
    /\ now <= MaxTime
    /\ now' = now + 1
    /\ Existe(pedido_id)
    /\ pedidos' = [pedidos EXCEPT ![pedido_id] =
          [@ EXCEPT
             !.notas_adicionales =
                 IF pedido_update.notas_adicionales # None
                 THEN pedido_update.notas_adicionales ELSE @,
             !.asignado_a =
                 IF pedido_update.asignado_a # None
                 THEN pedido_update.asignado_a ELSE @]]
    /\ UNCHANGED <<historial, req>>
    /\ UNCHANGED <<tareas, externo>>

\* -------------------------------------------------- the lifecycle transition
\* CampoFecha with the branch of listo_para_recoger stamping the column of the
\* branch below it.
CampoFechaCruzado(nuevo_estado) ==
    CASE nuevo_estado = CONFIRMADO -> "fecha_confirmacion"
      [] nuevo_estado = EN_PREPARACION -> "fecha_preparacion"
      [] nuevo_estado = LISTO_PARA_RECOGER -> "fecha_completado"
      [] nuevo_estado = COMPLETADO -> "fecha_completado"
      [] nuevo_estado = CANCELADO -> "fecha_cancelado"
      [] OTHER -> "ninguno"

\* The column a transition into nuevo_estado stamps; none for
\* pendiente_confirmacion (the if/elif chain has no branch for it).
CampoFecha(nuevo_estado) ==
    CASE nuevo_estado = CONFIRMADO -> "fecha_confirmacion"
      [] nuevo_estado = EN_PREPARACION -> "fecha_preparacion"
      [] nuevo_estado = LISTO_PARA_RECOGER -> "fecha_listo"
      [] nuevo_estado = COMPLETADO -> "fecha_completado"
      [] nuevo_estado = CANCELADO -> "fecha_cancelado"
      [] OTHER -> "ninguno"

\* The value of the timestamp column of nuevo_estado in a row.
Fecha(fila, nuevo_estado) ==
    IF CampoFecha(nuevo_estado) \in Columnas THEN fila[CampoFecha(nuevo_estado)] ELSE NULL

\* The request as received: a POST .../cambiar-estado or a confirmar_/cancelar_
\* callback.  The id and the state are the client's.
Recibido(ruta, pedido_id, nuevo_estado) ==
    [Idle EXCEPT !.ruta = ruta, !.pedido_id = pedido_id, !.nuevo_estado = nuevo_estado]

\* The session after the object was loaded and changed in memory:
\* estado_anterior = pedido.estado, pedido.estado = nuevo_estado, then the
\* timestamp of the new state, if it has one.
Cargado(solicitud) ==
    LET fila == pedidos[solicitud.pedido_id]
        nuevo_estado == solicitud.nuevo_estado
    IN  [solicitud EXCEPT
            !.pc = "cargado",
            !.cargado = [estado |-> fila.estado, fecha |-> Fecha(fila, nuevo_estado)],
            !.pedido = [estado |-> nuevo_estado,
                        fecha |-> IF CampoFecha(nuevo_estado) \in Columnas
                                  THEN now ELSE NULL]]

\* cambiar_estado_pedido with neither the schema's pattern nor the enum's check.
cambiar_estado_pedido_sin_validar(r, pedido_id, nuevo_estado) ==
    LET solicitud == Recibido("rest", pedido_id, nuevo_estado) IN
    /\ Libre
    /\ req[r].pc = "idle"
    /\ now <= MaxTime
    /\ now' = now + 1
    /\ req' = [req EXCEPT ![r] =
         IF ~Existe(pedido_id) THEN [solicitud EXCEPT !.pc = "http_404"]
         ELSE Cargado(solicitud)]
    /\ UNCHANGED <<pedidos, historial>>
    /\ UNCHANGED <<tareas, externo>>

\* cambiar_estado_pedido refusing to move an order out of a terminal state.
cambiar_estado_pedido_estricto(r, pedido_id, nuevo_estado) ==
    LET solicitud == Recibido("rest", pedido_id, nuevo_estado) IN
    /\ Libre
    /\ req[r].pc = "idle"
    /\ now <= MaxTime
    /\ now' = now + 1
    /\ req' = [req EXCEPT ![r] =
         IF ~CambiarEstadoPedido(nuevo_estado) THEN [solicitud EXCEPT !.pc = "http_422"]
         ELSE IF ~Existe(pedido_id) THEN [solicitud EXCEPT !.pc = "http_404"]
         ELSE IF pedidos[pedido_id].estado \in {COMPLETADO, CANCELADO}
              THEN [solicitud EXCEPT !.pc = "http_400"]
         ELSE Cargado(solicitud)]
    /\ UNCHANGED <<pedidos, historial>>
    /\ UNCHANGED <<tareas, externo>>

\* cambiar_estado_pedido up to db.add(historial): request validation, the
\* query, the 404, the 400, the changes to the loaded object.
cambiar_estado_pedido(r, pedido_id, nuevo_estado) ==
    LET solicitud == Recibido("rest", pedido_id, nuevo_estado) IN
    /\ Libre
    /\ req[r].pc = "idle"
    /\ now <= MaxTime
    /\ now' = now + 1
    /\ req' = [req EXCEPT ![r] =
         IF ~CambiarEstadoPedido(nuevo_estado) THEN [solicitud EXCEPT !.pc = "http_422"]
         ELSE IF ~Existe(pedido_id) THEN [solicitud EXCEPT !.pc = "http_404"]
         ELSE IF nuevo_estado \notin EstadoPedidoEnum THEN [solicitud EXCEPT !.pc = "http_400"]
         ELSE Cargado(solicitud)]
    /\ UNCHANGED <<pedidos, historial>>
    /\ UNCHANGED <<tareas, externo>>

\* _cambiar_estado_pedido up to db.add(historial).  For an id without an
\* order it returns None, and manejar_confirmacion goes on to answer that the
\* order was confirmed or cancelled.
bot_cambiar_estado_pedido(r, pedido_id, nuevo_estado) ==
    LET solicitud == Recibido("bot", pedido_id, nuevo_estado) IN
    /\ Libre
    /\ req[r].pc = "idle"
    /\ now <= MaxTime
    /\ now' = now + 1
    /\ req' = [req EXCEPT ![r] =
         IF ~Existe(pedido_id) THEN [solicitud EXCEPT !.pc = "bot_respondido"]
         ELSE Cargado(solicitud)]
    /\ UNCHANGED <<pedidos, historial>>
    /\ UNCHANGED <<tareas, externo>>

\* Update without the timestamp column.
UpdateSinFecha(fila, solicitud) ==
    IF solicitud.pedido.estado # solicitud.cargado.estado
    THEN [fila EXCEPT !.estado = solicitud.pedido.estado] ELSE fila

\* The UPDATE the unit of work emits for the session of solicitud: of the
\* attributes assigned, only those whose value differs from the value loaded
\* are written.
Update(fila, solicitud) ==
    LET conEstado ==
            IF solicitud.pedido.estado # solicitud.cargado.estado
            THEN [fila EXCEPT !.estado = solicitud.pedido.estado] ELSE fila
    IN  IF /\ CampoFecha(solicitud.nuevo_estado) \in Columnas
           /\ solicitud.pedido.fecha # solicitud.cargado.fecha
        THEN [conEstado EXCEPT ![CampoFecha(solicitud.nuevo_estado)] = solicitud.pedido.fecha]
        ELSE conEstado

\* Fila with estado_anterior read after pedido.estado was assigned.
FilaDespues(r) ==
    HistorialEstado(req[r].pedido_id, req[r].pedido.estado,
                    req[r].nuevo_estado, ModificadoPor(req[r].ruta))

\* The history row the session holds.
Fila(r) ==
    HistorialEstado(req[r].pedido_id, req[r].cargado.estado,
                    req[r].nuevo_estado, ModificadoPor(req[r].ruta))

\* Commit that writes no history row when the order already is in the state
\* asked for.
CommitSinReentrada(r) ==
    /\ Libre
    /\ req[r].pc = "cargado"
    /\ pedidos' = [pedidos EXCEPT ![req[r].pedido_id] = Update(@, req[r])]
    /\ historial' = IF req[r].nuevo_estado = req[r].cargado.estado
                    THEN historial
                    ELSE Append(historial,
                                HistorialEstado(req[r].pedido_id, req[r].cargado.estado,
                                                req[r].nuevo_estado,
                                                ModificadoPor(req[r].ruta)))
    /\ req' = [req EXCEPT ![r].pc =
                  IF req[r].ruta = "rest" THEN "http_200" ELSE "bot_respondido"]
    /\ UNCHANGED now
    /\ UNCHANGED <<tareas, externo>>

\* Commit on a history table keyed by (pedido_id, estado_anterior): the row of
\* a second transition out of the same state replaces the first.
CommitUpsert(r) ==
    LET fila == HistorialEstado(req[r].pedido_id, req[r].cargado.estado,
                                req[r].nuevo_estado, ModificadoPor(req[r].ruta))
        mismas == {i \in 1..Len(historial) :
                     /\ historial[i].pedido_id = fila.pedido_id
                     /\ historial[i].estado_anterior = fila.estado_anterior}
    IN
    /\ Libre
    /\ req[r].pc = "cargado"
    /\ pedidos' = [pedidos EXCEPT ![req[r].pedido_id] = Update(@, req[r])]
    /\ historial' = IF mismas = {} THEN Append(historial, fila)
                    ELSE [historial EXCEPT ![CHOOSE i \in mismas : TRUE] = fila]
    /\ req' = [req EXCEPT ![r].pc =
                  IF req[r].ruta = "rest" THEN "http_200" ELSE "bot_respondido"]
    /\ UNCHANGED now
    /\ UNCHANGED <<tareas, externo>>

\* db.commit(): the UPDATE of the order and the INSERT of the history row in
\* one transaction.
Commit(r) ==
    /\ Libre
    /\ req[r].pc = "cargado"
    /\ pedidos' = [pedidos EXCEPT ![req[r].pedido_id] = Update(@, req[r])]
    /\ historial' = Append(historial, Fila(r))
    /\ req' = [req EXCEPT ![r].pc =
                  IF req[r].ruta = "rest" THEN "http_200" ELSE "bot_respondido"]
    /\ UNCHANGED now
    /\ UNCHANGED <<tareas, externo>>

\* Rollback after a first commit of the order alone: the UPDATE stays.
RollbackParcial(r) ==
    /\ Libre
    /\ req[r].pc = "cargado"
    /\ pedidos' = [pedidos EXCEPT ![req[r].pedido_id] = Update(@, req[r])]
    /\ req' = [req EXCEPT ![r].pc =
                  IF req[r].ruta = "rest" THEN "http_500" ELSE "bot_error"]
    /\ UNCHANGED <<historial, now>>
    /\ UNCHANGED <<tareas, externo>>

\* db.commit() raises (the database is locked or gone): the transaction is
\* rolled back when the session closes.
Rollback(r) ==
    /\ Libre
    /\ req[r].pc = "cargado"
    /\ req' = [req EXCEPT ![r].pc =
                  IF req[r].ruta = "rest" THEN "http_500" ELSE "bot_error"]
    /\ UNCHANGED <<pedidos, historial, now>>
    /\ UNCHANGED <<tareas, externo>>

\* The task cambiar_estado_pedido creates after its commit: it holds the order
\* object, refreshed after the commit, and the new state.
Tarea(r) ==
    [pedido |-> [id |-> req[r].pedido_id,
                 telegram_user_id |-> pedidos[req[r].pedido_id].telegram_user_id,
                 resumen_items |-> pedidos[req[r].pedido_id].resumen_items],
     nuevo_estado |-> req[r].nuevo_estado]

\* The response goes out and the session is closed.  After its commit the REST
\* handler creates the task enviar_notif() and returns the order; the bot
\* handler edits its message and replies, and creates no task.
Responder(r) ==
    /\ Respondiendo(r)
    /\ req' = [req EXCEPT ![r] = Idle]
    /\ tareas' = IF req[r].pc = "http_200" THEN Append(tareas, Tarea(r)) ELSE tareas
    /\ UNCHANGED <<pedidos, historial, now>>
    /\ UNCHANGED externo

\* No other request holds the same order loaded.
UnaALaVez(pedido_id) ==
    \A q \in Requests : req[q].pc = "cargado" => req[q].pedido_id # pedido_id

Edicion ==
    \E pedido_id \in PedidoIds, pedido_update \in PedidoUpdate :
        actualizar_pedido(pedido_id, pedido_update)

Rest ==
    \E r \in Requests, pedido_id \in PedidoIds, nuevo_estado \in EstadosSolicitados :
        cambiar_estado_pedido(r, pedido_id, nuevo_estado)

Bot ==
    \E r \in Requests, pedido_id \in PedidoIds, nuevo_estado \in EstadosDelBot :
        bot_cambiar_estado_pedido(r, pedido_id, nuevo_estado)

\* An order comes in.  The lifecycle reads none of the columns of the message.
Creacion ==
    \E mensaje \in {[mensaje_id |-> 1, telegram_user_id |-> 101]} :
        GuardarPedido(mensaje, "pizza")

Next ==
    \/ Creacion
    \/ Edicion
    \/ Rest
    \/ Bot
    \/ \E r \in Requests : Commit(r)
    \/ \E r \in Requests : Rollback(r)
    \/ \E r \in Requests : Responder(r)

Spec == Init /\ [][Next]_vars

\* The same program when the transitions of an order run one at a time.
RestUnaALaVez ==
    \E r \in Requests, pedido_id \in PedidoIds, nuevo_estado \in EstadosSolicitados :
        UnaALaVez(pedido_id) /\ cambiar_estado_pedido(r, pedido_id, nuevo_estado)

BotUnaALaVez ==
    \E r \in Requests, pedido_id \in PedidoIds, nuevo_estado \in EstadosDelBot :
        UnaALaVez(pedido_id) /\ bot_cambiar_estado_pedido(r, pedido_id, nuevo_estado)

NextUnaALaVez ==
    \/ Creacion
    \/ Edicion
    \/ RestUnaALaVez
    \/ BotUnaALaVez
    \/ \E r \in Requests : Commit(r)
    \/ \E r \in Requests : Rollback(r)
    \/ \E r \in Requests : Responder(r)

SpecUnaALaVez == Init /\ [][NextUnaALaVez]_vars

\* =========================================================== notifications
CAMBIO_ESTADO == "cambio_estado"

\* The text of a notification: the template of the state with the order id
\* and the summary of its items put in.
Plantilla(estado, pedido) ==
    [plantilla |-> estado, pedido_id |-> pedido.id, resumen_items |-> pedido.resumen_items]

\* notificar_cambio_estado without the entry of CANCELADO in mensajes_estado.
notificar_sin_cancelado(pedido, nuevo_estado) ==
    LET mensajes_estado ==
            [e \in {CONFIRMADO, EN_PREPARACION, LISTO_PARA_RECOGER, COMPLETADO}
                |-> Plantilla(e, pedido)]
    IN  IF nuevo_estado \notin DOMAIN mensajes_estado THEN <<>>
        ELSE <<[telegram_user_id |-> pedido.telegram_user_id,
                mensaje |-> mensajes_estado[nuevo_estado],
                tipo_notificacion |-> CAMBIO_ESTADO,
                pedido_id |-> pedido.id]>>

\* notificar_cambio_estado: mensajes_estado.get(nuevo_estado), None when the
\* state has no entry.  The Optional result is a sequence of at most one dict.
notificar_cambio_estado(pedido, nuevo_estado) ==
    LET mensajes_estado ==
            [e \in {CONFIRMADO, EN_PREPARACION, LISTO_PARA_RECOGER,
                    COMPLETADO, CANCELADO} |-> Plantilla(e, pedido)]
    IN  IF nuevo_estado \notin DOMAIN mensajes_estado THEN <<>>
        ELSE <<[telegram_user_id |-> pedido.telegram_user_id,
                mensaje |-> mensajes_estado[nuevo_estado],
                tipo_notificacion |-> CAMBIO_ESTADO,
                pedido_id |-> pedido.id]>>

\* A NotificacionEnviada row.
NotificacionEnviada(pedido_id, telegram_user_id, tipo_notificacion, mensaje, exitoso, error) ==
    [pedido_id |-> pedido_id,
     telegram_user_id |-> telegram_user_id,
     tipo_notificacion |-> tipo_notificacion,
     mensaje |-> mensaje,
     exitoso |-> exitoso,
     error |-> error]

\* How bot.send_message ends, and how the db.commit() of the row ends.
Envios == {"ok", "TelegramError", "Exception"}
Commits == {"ok", "raise"}

\* enviar_notificacion: one await of bot.send_message, then the row.  A
\* TelegramError is recorded with exitoso=False; any other exception of the
\* try block, the commit of the exitoso=True row included, ends in the last
\* except clause, which records nothing and returns False; a commit that
\* raises inside the except TelegramError clause leaves the function.
enviar_notificacion(telegram_user_id, mensaje, tipo_notificacion, pedido_id, envio, commit) ==
    /\ intentos' = Append(intentos,
           [chat_id |-> telegram_user_id, text |-> mensaje, resultado |-> envio])
    /\ IF envio = "ok" /\ commit = "ok"
       THEN /\ notificaciones' = Append(notificaciones,
                   NotificacionEnviada(pedido_id, telegram_user_id, tipo_notificacion,
                                       mensaje, TRUE, None))
            /\ retorno' = "True"
       ELSE IF envio = "TelegramError" /\ commit = "ok"
       THEN /\ notificaciones' = Append(notificaciones,
                   NotificacionEnviada(pedido_id, telegram_user_id, tipo_notificacion,
                                       mensaje, FALSE, "TelegramError"))
            /\ retorno' = "False"
       ELSE /\ notificaciones' = notificaciones
            /\ retorno' = IF envio = "TelegramError" THEN "raise" ELSE "False"

Quitar(s, i) == SubSeq(s, 1, i - 1) \o SubSeq(s, i + 1, Len(s))

\* A delivery that takes a failed send as a reason to put the order back in
\* the state it came from.
enviar_notif_revierte(i, envio, commit) ==
    LET tarea == tareas[i]
        notif_data == notificar_cambio_estado(tarea.pedido, tarea.nuevo_estado)
    IN
    /\ Libre
    /\ i \in 1..Len(tareas)
    /\ tareas' = Quitar(tareas, i)
    /\ IF notif_data = <<>>
       THEN /\ retorno' = "False"
            /\ UNCHANGED <<notificaciones, intentos, pedidos>>
       ELSE /\ enviar_notificacion(notif_data[1].telegram_user_id, notif_data[1].mensaje,
                                   notif_data[1].tipo_notificacion,
                                   notif_data[1].pedido_id, envio, commit)
            /\ pedidos' = IF envio = "ok" THEN pedidos
                          ELSE [pedidos EXCEPT ![tarea.pedido.id].estado =
                                   PENDIENTE_CONFIRMACION]
    /\ UNCHANGED <<historial, now, req, logs, chat, acceso, otros>>

\* The task enviar_notif() runs: enviar_notificacion_cambio_estado on a session
\* of its own.  Nothing is sent when notificar_cambio_estado gives None.  The
\* send and the commit of the row are taken as one step: what happens between
\* the two touches neither table of this step.
enviar_notif(i, envio, commit) ==
    LET tarea == tareas[i]
        notif_data == notificar_cambio_estado(tarea.pedido, tarea.nuevo_estado)
    IN
    /\ Libre
    /\ i \in 1..Len(tareas)
    /\ tareas' = Quitar(tareas, i)
    /\ IF notif_data = <<>>
       THEN /\ retorno' = "False"
            /\ UNCHANGED <<notificaciones, intentos>>
       ELSE enviar_notificacion(notif_data[1].telegram_user_id, notif_data[1].mensaje,
                                notif_data[1].tipo_notificacion,
                                notif_data[1].pedido_id, envio, commit)
    /\ UNCHANGED <<pedidos, historial, now, req, logs, chat, acceso, otros>>

\* The lifecycle with its notifications: one request at a time, two of the
\* states asked for over REST, each user with an order of its own.
Resumen(mensaje) == IF mensaje.mensaje_id = 1 THEN "pizza" ELSE "cafe"

EstadosNotificados == {PENDIENTE_CONFIRMACION, COMPLETADO}

CreacionN ==
    \E mensaje \in Mensajes : GuardarPedido(mensaje, Resumen(mensaje))

RestN ==
    \E pedido_id \in PedidoIds, nuevo_estado \in EstadosNotificados :
        cambiar_estado_pedido("r1", pedido_id, nuevo_estado)

BotN ==
    \E pedido_id \in PedidoIds, nuevo_estado \in EstadosDelBot :
        bot_cambiar_estado_pedido("r1", pedido_id, nuevo_estado)

Entrega ==
    \E i \in 1..Len(tareas), envio \in Envios, commit \in Commits :
        enviar_notif(i, envio, commit)

NextNotificaciones ==
    \/ CreacionN
    \/ RestN
    \/ BotN
    \/ Commit("r1")
    \/ Rollback("r1")
    \/ Responder("r1")
    \/ Entrega

SpecNotificaciones == Init /\ [][NextNotificaciones]_vars

\* ======================================================= incoming messages
\* A LogMensaje row.
LogMensaje(mensaje, tipo_mensaje) ==
    [telegram_user_id |-> mensaje.telegram_user_id,
     mensaje_id |-> mensaje.mensaje_id,
     tipo_mensaje |-> tipo_mensaje,
     es_pedido |-> FALSE]

\* One proposed order in the classifier's answer: fecha_solicitada is a date
\* in %Y-%m-%d or a string that is no such date.
PedidosData ==
    {[fecha_solicitada |-> "2025-12-26", resumen_items |-> "pizza"],
     [fecha_solicitada |-> "2025-12-27", resumen_items |-> "te"],
     [fecha_solicitada |-> "26/12/2025", resumen_items |-> "cafe"]}

\* datetime.strptime(fecha, "%Y-%m-%d") raises ValueError.
FechaInvalida(pedido_data) ==
    pedido_data.fecha_solicitada \notin {None, "2025-12-26", "2025-12-27"}

Listas(n) == UNION {[1..k -> PedidosData] : k \in 0..n}

\* What Gemini can answer: text that is no JSON, JSON that is no object, a
\* call that raises, or an object in which each of the two keys may be
\* missing (con_pedidos: the key "pedidos" is there).
RespuestasGemini ==
    [texto : {"no_json", "no_objeto", "llamada_fallida"},
     es_pedido : {"ausente"}, con_pedidos : {FALSE}, pedidos : {<<>>}]
    \cup
    [texto : {"objeto"}, es_pedido : {"ausente", "true", "false"},
     con_pedidos : {FALSE}, pedidos : {<<>>}]
    \cup
    [texto : {"objeto"}, es_pedido : {"ausente", "true", "false"},
     con_pedidos : {TRUE}, pedidos : Listas(MaxPropuestas)]

\* analizar_mensaje: the parsed object, or None (the empty sequence) after
\* json.JSONDecodeError or any other exception: resultado.get on a parsed
\* value that is no dict raises AttributeError inside the try.
analizar_mensaje(respuesta) ==
    IF respuesta.texto = "objeto" THEN <<respuesta>> ELSE <<>>

\* `not analisis`: None or the empty dict.
Falsy(analisis) ==
    \/ analisis = <<>>
    \/ analisis[1].es_pedido = "ausente" /\ ~analisis[1].con_pedidos

\* analisis.get("pedidos", [])
PedidosList(analisis) ==
    IF analisis[1].con_pedidos THEN analisis[1].pedidos ELSE <<>>

\* The loop that saves only pedidos_list[0].
GuardadosSoloPrimero(mensaje, pedidos_list) ==
    IF FechaInvalida(pedidos_list[1]) THEN <<>>
    ELSE <<NuevoPedido(mensaje, pedidos_list[1].resumen_items)>>

\* The loop in one transaction: nothing is kept when a proposal fails.
GuardadosTodoONada(mensaje, pedidos_list) ==
    IF \E k \in 1..Len(pedidos_list) : FechaInvalida(pedidos_list[k]) THEN <<>>
    ELSE [k \in 1..Len(pedidos_list) |->
              NuevoPedido(mensaje, pedidos_list[k].resumen_items)]

\* The rows the loop over pedidos_list commits: one per proposed order, each
\* with a commit of its own, up to the first one whose date strptime refuses.
Guardados(mensaje, pedidos_list) ==
    LET malas == {k \in 1..Len(pedidos_list) : FechaInvalida(pedidos_list[k])}
        n == IF malas = {} THEN Len(pedidos_list)
             ELSE (CHOOSE k \in malas : \A j \in malas : k <= j) - 1
    IN  [k \in 1..n |-> NuevoPedido(mensaje, pedidos_list[k].resumen_items)]

\* procesar_mensaje up to `await self.gemini.analizar_mensaje(texto)`: the
\* LogMensaje row is committed first.
procesar_mensaje(mensaje) ==
    /\ Libre
    /\ chat.pc = "idle"
    /\ Len(logs) < MaxMensajes
    /\ logs' = Append(logs, LogMensaje(mensaje, "text"))
    /\ chat' = [Callado EXCEPT !.pc = "analizando", !.mensaje = mensaje,
                               !.tipo_mensaje = "text", !.log = Len(logs) + 1,
                               !.respuesta = "analizando"]
    /\ UNCHANGED <<pedidos, historial, now, req, tareas, notificaciones, intentos, retorno, acceso, otros>>

\* procesar_mensaje_voz up to the same await.  A voice message whose download
\* or transcription fails is answered and not logged.
procesar_mensaje_voz(mensaje, previo) ==
    /\ Libre
    /\ chat.pc = "idle"
    /\ Len(logs) < MaxMensajes
    /\ IF previo = "ok"
       THEN /\ logs' = Append(logs, LogMensaje(mensaje, "voice"))
            /\ chat' = [Callado EXCEPT !.pc = "analizando", !.mensaje = mensaje,
                                       !.tipo_mensaje = "voice", !.log = Len(logs) + 1,
                                       !.respuesta = "transcribiendo"]
       ELSE /\ logs' = logs
            /\ chat' = [Callado EXCEPT !.pc = "respondido", !.mensaje = mensaje,
                                       !.tipo_mensaje = "voice", !.respuesta = previo]
    /\ UNCHANGED <<pedidos, historial, now, req, tareas, notificaciones, intentos, retorno, acceso, otros>>

\* The rest of either handler, from the classifier's answer to its last
\* reply; the loop that saves the orders has no await in it.  The text
\* handler tests `analisis is None`, the voice handler `not analisis`, and
\* each has its own words for that reply.  An exception of the loop leaves
\* the handler without a reply.
Analizado(respuesta) ==
    LET analisis == analizar_mensaje(respuesta)
        fallo == IF chat.tipo_mensaje = "text" THEN analisis = <<>> ELSE Falsy(analisis)
        es_pedido == ~fallo /\ analisis[1].es_pedido = "true"
        pedidos_list == IF es_pedido THEN PedidosList(analisis) ELSE <<>>
        filas == IF pedidos_list = <<>> THEN <<>> ELSE Guardados(chat.mensaje, pedidos_list)
    IN
    /\ Libre
    /\ chat.pc = "analizando"
    /\ Len(pedidos) + Len(respuesta.pedidos) <= MaxPedidos + 1
    /\ logs' = IF es_pedido THEN [logs EXCEPT ![chat.log].es_pedido = TRUE] ELSE logs
    /\ pedidos' = pedidos \o filas
    /\ chat' = [chat EXCEPT
          !.analisis = respuesta,
          !.pc = IF Len(filas) < Len(pedidos_list) THEN "excepcion" ELSE "respondido",
          !.respuesta =
              IF fallo
              THEN IF chat.tipo_mensaje = "text" THEN "error_analisis" ELSE "sin_analisis"
              ELSE IF ~es_pedido THEN "casual"
              ELSE IF pedidos_list = <<>> THEN "sin_detalles"
              ELSE IF Len(filas) < Len(pedidos_list) THEN "ninguna"
              ELSE "pedidos_guardados"]
    /\ UNCHANGED <<historial, now, req, tareas, notificaciones, intentos, retorno, acceso, otros>>

\* The handler returns and its session is closed.
Terminar ==
    /\ chat.pc \in {"respondido", "excepcion"}
    /\ chat' = Callado
    /\ UNCHANGED <<pedidos, historial, now, req, tareas, notificaciones, intentos, retorno, logs, acceso, otros>>

Texto == \E mensaje \in {m \in Mensajes : m.mensaje_id = 1} : procesar_mensaje(mensaje)

Voz ==
    \E mensaje \in {m \in Mensajes : m.mensaje_id = 2},
       previo \in {"ok", "error_descarga", "sin_transcripcion"} :
        procesar_mensaje_voz(mensaje, previo)

Clasificado == \E respuesta \in RespuestasGemini : Analizado(respuesta)

\* The buttons under the reply: confirmar_<id>.
BotM ==
    \E pedido_id \in PedidoIds : bot_cambiar_estado_pedido("r1", pedido_id, CONFIRMADO)

NextMensajes ==
    \/ Texto
    \/ Voz
    \/ Clasificado
    \/ Terminar
    \/ BotM
    \/ Commit("r1")
    \/ Rollback("r1")
    \/ Responder("r1")

SpecMensajes == Init /\ [][NextMensajes]_vars

\* ========================================================== refresh tokens
REFRESH_TOKEN_EXPIRE_DAYS == 7

\* A RefreshToken row; secrets.token_urlsafe(32) is taken to be new each
\* time, so the token of row i is i.
RefreshToken(token, user_id, expires_at) ==
    [token |-> token, user_id |-> user_id, expires_at |-> expires_at,
     is_revoked |-> FALSE]

\* create_refresh_token: the table after its commit; the token returned is
\* that of the last row.
create_refresh_token(user_id, filas, ahora) ==
    Append(filas, RefreshToken(Len(filas) + 1, user_id,
                               ahora + REFRESH_TOKEN_EXPIRE_DAYS))

\* verify_refresh_token that does not filter on is_revoked.
verify_sin_revocados(token, filas, ahora) ==
    LET halladas == {i \in 1..Len(filas) : filas[i].token = token}
    IN  IF halladas = {} THEN <<>>
        ELSE LET refresh_token == filas[CHOOSE i \in halladas : TRUE]
             IN  IF refresh_token.expires_at < ahora THEN <<>>
                 ELSE <<refresh_token.user_id>>

\* verify_refresh_token: the user of the token, or None (the empty sequence).
verify_refresh_token(token, filas, ahora) ==
    LET halladas == {i \in 1..Len(filas) :
                        filas[i].token = token /\ filas[i].is_revoked = FALSE}
    IN  IF halladas = {} THEN <<>>
        ELSE LET refresh_token == filas[CHOOSE i \in halladas : TRUE]
             IN  IF refresh_token.expires_at < ahora THEN <<>>
                 ELSE <<refresh_token.user_id>>

\* revoke_refresh_token that leaves the row as it is.
revoke_nada(token, filas) == filas

\* revoke_refresh_token: the table after its commit; it returns False, and
\* the table is the same, when there is no such token.
revoke_refresh_token(token, filas) ==
    [i \in 1..Len(filas) |->
        IF filas[i].token = token THEN [filas[i] EXCEPT !.is_revoked = TRUE]
        ELSE filas[i]]

\* revoke_all_user_tokens
revoke_all_user_tokens(user_id, filas) ==
    [i \in 1..Len(filas) |->
        IF filas[i].user_id = user_id /\ filas[i].is_revoked = FALSE
        THEN [filas[i] EXCEPT !.is_revoked = TRUE]
        ELSE filas[i]]

\* A response is sent in the step right after the one that produced it.
EnCurso(a) == auth[a].pc \in {"verificado", "revocado"}

Atendible ==
    /\ servidor = "up"
    /\ \A a \in Llamadas : auth[a].pc \in {"idle", "verificado", "revocado"}

Resultado(op, pc, token, user_id, revoco, nuevo) ==
    [pc |-> pc, op |-> op, token |-> token, user_id |-> user_id,
     revoco |-> revoco, nuevo |-> nuevo]

\* How many rows the calls under way may still add.
PorCrear == Cardinality({a \in Llamadas : EnCurso(a)})

\* POST /api/auth/register
register(a, user_id) ==
    /\ Atendible
    /\ auth[a].pc = "idle"
    /\ Len(tokens) + PorCrear < MaxTokens
    /\ IF users[user_id] # "ausente"
       THEN /\ auth' = [auth EXCEPT ![a] =
                    Resultado("register", "http_400", 0, user_id, FALSE, 0)]
            /\ UNCHANGED <<users, tokens>>
       ELSE /\ users' = [users EXCEPT ![user_id] = "activo"]
            /\ tokens' = create_refresh_token(user_id, tokens, utcnow)
            /\ auth' = [auth EXCEPT ![a] =
                    Resultado("register", "http_201", 0, user_id, FALSE, Len(tokens'))]
    /\ UNCHANGED <<utcnow, servidor, trabajos>>
    /\ UNCHANGED <<pedidos, historial, now, req, tareas, otros>>
    /\ UNCHANGED <<notificaciones, intentos, retorno, logs, chat, canjes>>

\* POST /api/auth/login and POST /api/auth/token
login(a, user_id, password) ==
    /\ Atendible
    /\ auth[a].pc = "idle"
    /\ Len(tokens) + PorCrear < MaxTokens
    /\ IF users[user_id] = "ausente" \/ ~password
       THEN /\ auth' = [auth EXCEPT ![a] =
                    Resultado("login", "http_401", 0, user_id, FALSE, 0)]
            /\ tokens' = tokens
       ELSE IF users[user_id] # "activo"
       THEN /\ auth' = [auth EXCEPT ![a] =
                    Resultado("login", "http_403", 0, user_id, FALSE, 0)]
            /\ tokens' = tokens
       ELSE /\ tokens' = create_refresh_token(user_id, tokens, utcnow)
            /\ auth' = [auth EXCEPT ![a] =
                    Resultado("login", "http_200", 0, user_id, FALSE, Len(tokens'))]
    /\ UNCHANGED <<users, utcnow, servidor, trabajos>>
    /\ UNCHANGED <<pedidos, historial, now, req, tareas, otros>>
    /\ UNCHANGED <<notificaciones, intentos, retorno, logs, chat, canjes>>

\* POST /api/auth/refresh up to and including the check of is_active.
refresh_access_token(a, token) ==
    LET user == verify_refresh_token(token, tokens, utcnow) IN
    /\ Atendible
    /\ auth[a].pc = "idle"
    /\ Len(tokens) + PorCrear < MaxTokens
    /\ auth' = [auth EXCEPT ![a] =
          IF user = <<>>
          THEN Resultado("refresh", "http_401", token, 0, FALSE, 0)
          ELSE IF users[user[1]] # "activo"
          THEN Resultado("refresh", "http_403", token, user[1], FALSE, 0)
          ELSE Resultado("refresh", "verificado", token, user[1], FALSE, 0)]
    /\ UNCHANGED <<users, tokens, utcnow, servidor, trabajos>>
    /\ UNCHANGED <<pedidos, historial, now, req, tareas, otros>>
    /\ UNCHANGED <<notificaciones, intentos, retorno, logs, chat, canjes>>

\* ... its call of revoke_refresh_token, whose commit may raise ...
Revocar(a, commit) ==
    /\ Atendible
    /\ auth[a].pc = "verificado"
    /\ IF commit = "ok"
       THEN /\ tokens' = revoke_refresh_token(auth[a].token, tokens)
            /\ auth' = [auth EXCEPT ![a].pc = "revocado", ![a].revoco = TRUE]
       ELSE /\ tokens' = tokens
            /\ auth' = [auth EXCEPT ![a].pc = "http_500"]
    /\ UNCHANGED <<users, utcnow, servidor, trabajos>>
    /\ UNCHANGED <<pedidos, historial, now, req, tareas, otros>>
    /\ UNCHANGED <<notificaciones, intentos, retorno, logs, chat, canjes>>

\* ... and its call of create_refresh_token, with a commit of its own.
Crear(a, commit) ==
    /\ Atendible
    /\ auth[a].pc = "revocado"
    /\ IF commit = "ok"
       THEN /\ tokens' = create_refresh_token(auth[a].user_id, tokens, utcnow)
            /\ auth' = [auth EXCEPT ![a].pc = "http_200", ![a].nuevo = Len(tokens')]
            /\ canjes' = canjes \cup {auth[a].token}
       ELSE /\ tokens' = tokens
            /\ auth' = [auth EXCEPT ![a].pc = "http_500"]
            /\ canjes' = canjes
    /\ UNCHANGED <<users, utcnow, servidor, trabajos>>
    /\ UNCHANGED <<pedidos, historial, now, req, tareas, otros>>
    /\ UNCHANGED <<notificaciones, intentos, retorno, logs, chat>>

\* POST /api/auth/logout, called by an active user
logout(a, user_id, token) ==
    /\ Atendible
    /\ auth[a].pc = "idle"
    /\ users[user_id] = "activo"
    /\ tokens' = revoke_refresh_token(token, tokens)
    /\ auth' = [auth EXCEPT ![a] =
          IF \E i \in 1..Len(tokens) : tokens[i].token = token
          THEN Resultado("logout", "http_200", token, user_id, TRUE, 0)
          ELSE Resultado("logout", "http_400", token, user_id, FALSE, 0)]
    /\ UNCHANGED <<users, utcnow, servidor, trabajos>>
    /\ UNCHANGED <<pedidos, historial, now, req, tareas, otros>>
    /\ UNCHANGED <<notificaciones, intentos, retorno, logs, chat, canjes>>

\* POST /api/auth/logout-all, called by an active user
logout_all(a, user_id) ==
    /\ Atendible
    /\ auth[a].pc = "idle"
    /\ users[user_id] = "activo"
    /\ tokens' = revoke_all_user_tokens(user_id, tokens)
    /\ auth' = [auth EXCEPT ![a] =
          Resultado("logout_all", "http_200", 0, user_id, tokens' # tokens, 0)]
    /\ UNCHANGED <<users, utcnow, servidor, trabajos>>
    /\ UNCHANGED <<pedidos, historial, now, req, tareas, otros>>
    /\ UNCHANGED <<notificaciones, intentos, retorno, logs, chat, canjes>>

\* PUT /api/users/{user_id} by an admin, with is_active in the body.
update_user_by_admin(user_id, is_active) ==
    /\ Atendible
    /\ users[user_id] # "ausente"
    /\ users' = [users EXCEPT ![user_id] = IF is_active THEN "activo" ELSE "inactivo"]
    /\ users' # users
    /\ UNCHANGED <<tokens, utcnow, auth, servidor, trabajos>>
    /\ UNCHANGED <<pedidos, historial, now, req, tareas, otros>>
    /\ UNCHANGED <<notificaciones, intentos, retorno, logs, chat, canjes>>

\* The response of a call goes out.
ResponderAuth(a) ==
    /\ auth[a].pc \notin {"idle", "verificado", "revocado"}
    /\ auth' = [auth EXCEPT ![a] = SinLlamada]
    /\ UNCHANGED <<users, tokens, utcnow, servidor, trabajos>>
    /\ UNCHANGED <<pedidos, historial, now, req, tareas, otros>>
    /\ UNCHANGED <<notificaciones, intentos, retorno, logs, chat, canjes>>

\* Days pass.  The scheduler runs its jobs on the hour: enviar_resumen_pedidos
\* reads the orders and sends a text, and writes to no table.
Pasa(dias) ==
    /\ Atendible
    /\ utcnow + dias <= MaxDias
    /\ utcnow' = utcnow + dias
    /\ UNCHANGED <<users, tokens, auth, servidor, trabajos>>
    /\ UNCHANGED <<pedidos, historial, now, req, tareas, otros>>
    /\ UNCHANGED <<notificaciones, intentos, retorno, logs, chat, canjes>>

\* shutdown_event: stop_scheduler drops the scheduler and its jobs.
shutdown_event ==
    /\ servidor = "up"
    /\ \A a \in Llamadas : auth[a].pc = "idle"
    /\ servidor' = "down"
    /\ trabajos' = {}
    /\ UNCHANGED <<users, tokens, utcnow, auth>>
    /\ UNCHANGED <<pedidos, historial, now, req, tareas, otros>>
    /\ UNCHANGED <<notificaciones, intentos, retorno, logs, chat, canjes>>

\* startup_event: with TELEGRAM_TOKEN and GEMINI_API_KEY set, start_scheduler
\* runs TelegramScheduler.start, which adds its one job; without them no
\* scheduler is made.
startup_event(configurado) ==
    /\ servidor = "down"
    /\ servidor' = "up"
    /\ trabajos' = IF configurado THEN {resumen_pedidos} ELSE {}
    /\ UNCHANGED <<users, tokens, utcnow, auth>>
    /\ UNCHANGED <<pedidos, historial, now, req, tareas, otros>>
    /\ UNCHANGED <<notificaciones, intentos, retorno, logs, chat, canjes>>

Alta == \E a \in {"a1"}, user_id \in Usuarios : register(a, user_id)

Entrada ==
    \E a \in {"a1"}, user_id \in Usuarios, password \in BOOLEAN :
        login(a, user_id, password)

Refresco == \E a \in Llamadas, token \in 1..MaxTokens : refresh_access_token(a, token)

Rotacion == \E a \in Llamadas, commit \in Commits : Revocar(a, commit) \/ Crear(a, commit)

Salida ==
    \E a \in {"a1"}, user_id \in Usuarios :
        \/ \E token \in 1..MaxTokens : logout(a, user_id, token)
        \/ logout_all(a, user_id)

Admin == \E user_id \in Usuarios, is_active \in BOOLEAN : update_user_by_admin(user_id, is_active)

Reloj == \E dias \in {REFRESH_TOKEN_EXPIRE_DAYS, REFRESH_TOKEN_EXPIRE_DAYS + 1} : Pasa(dias)

Arranque == shutdown_event \/ \E configurado \in BOOLEAN : startup_event(configurado)

NextTokens ==
    \/ Alta
    \/ Entrada
    \/ Refresco
    \/ Rotacion
    \/ Salida
    \/ Admin
    \/ Reloj
    \/ Arranque
    \/ \E a \in Llamadas : ResponderAuth(a)

SpecTokens == Init /\ [][NextTokens]_vars

\* ====================================================== WebSocket clients
\* The JWTs presented to /ws/pedidos, named after what they stand for: one
\* that does not decode, one whose email is in no row, and one for each of
\* four accounts.  The accounts are not changed while sockets are open.
JWTs == {"malo", "huerfano", "admin", "staff", "user", "inactivo"}

Cuentas ==
    {[email |-> "admin", id |-> 1, is_active |-> TRUE, role |-> "admin"],
     [email |-> "staff", id |-> 2, is_active |-> TRUE, role |-> "staff"],
     [email |-> "user", id |-> 3, is_active |-> TRUE, role |-> "user"],
     [email |-> "inactivo", id |-> 4, is_active |-> FALSE, role |-> "admin"]}

\* verify_token: the email in "sub", or None.
verify_token(token) == IF token = "malo" THEN <<>> ELSE <<token>>

\* db.query(User).filter(User.email == email).first()
PorEmail(email) ==
    LET c == {x \in Cuentas : x.email = email}
    IN  IF c = {} THEN <<>> ELSE <<CHOOSE x \in c : TRUE>>

\* db.query(User).filter(User.id == int(user_id)).first()
PorId(id) ==
    LET c == {x \in Cuentas : x.id = id}
    IN  IF c = {} THEN <<>> ELSE <<CHOOSE x \in c : TRUE>>

\* The checks of websocket_pedidos without the one of the role.
RechazadoSinRol(token) ==
    LET email == verify_token(token)
        user == IF email = <<>> THEN <<>> ELSE PorEmail(email[1])
    IN  \/ email = <<>>
        \/ user = <<>>
        \/ ~user[1].is_active

\* The three checks of websocket_pedidos that end in close(code=1008).
Rechazado(token) ==
    LET email == verify_token(token)
        user == IF email = <<>> THEN <<>> ELSE PorEmail(email[1])
    IN  \/ email = <<>>
        \/ user = <<>>
        \/ ~user[1].is_active
        \/ user[1].role \notin {"admin", "staff"}

\* active_connections is a dict: its entries are kept in insertion order, the
\* entry of a deleted key stays as a hole, and a key set again gets a new
\* entry at the end with a list of its own.
Ranura(user_id, connections) ==
    [user_id |-> user_id, connections |-> connections, borrada |-> FALSE]

Rango(lista) == {lista[n] : n \in 1..Len(lista)}

Vivas(reg) == {i \in 1..Len(reg) : ~reg[i].borrada}

EnClaves(reg, user_id) == \E i \in Vivas(reg) : reg[i].user_id = user_id

RanuraDe(reg, user_id) == CHOOSE i \in Vivas(reg) : reg[i].user_id = user_id

\* list(self.active_connections.keys())
Claves(reg) ==
    LET vivas == SelectSeq(reg, LAMBDA r : ~r.borrada)
    IN  [n \in 1..Len(vivas) |-> vivas[n].user_id]

\* Every websocket in some list of the dict.
Registrados(reg) == UNION {Rango(reg[i].connections) : i \in Vivas(reg)}

\* ConnectionManager.connect after `await websocket.accept()`.
connect(reg, websocket, user_id) ==
    IF EnClaves(reg, user_id)
    THEN [reg EXCEPT ![RanuraDe(reg, user_id)].connections = Append(@, websocket)]
    ELSE Append(reg, Ranura(user_id, <<websocket>>))

\* ConnectionManager.disconnect: the dict after it, and the exception it
\* raises: list.remove raises ValueError for a value that is not in the list.
disconnect(reg, websocket, user_id) ==
    IF ~EnClaves(reg, user_id)
    THEN [registro |-> reg, error |-> "none"]
    ELSE LET i == RanuraDe(reg, user_id)
             resto == SelectSeq(reg[i].connections, LAMBDA c : c # websocket)
         IN  IF websocket \notin Rango(reg[i].connections)
             THEN [registro |-> reg, error |-> "ValueError"]
             ELSE [registro |-> [reg EXCEPT ![i].connections = resto,
                                            ![i].borrada = (resto = <<>>)],
                   error |-> "none"]

\* The second loop of broadcast: disconnect for each pair of `disconnected`;
\* an exception ends it.
RECURSIVE Limpiar(_, _)
Limpiar(reg, disconnected) ==
    IF disconnected = <<>> THEN [registro |-> reg, error |-> "none"]
    ELSE LET r == disconnect(reg, disconnected[1].ws, disconnected[1].user_id)
         IN  IF r.error # "none" THEN r
             ELSE Limpiar(r.registro, Tail(disconnected))

\* What the except clause after send_json does: broadcast notes the pair for
\* its second loop, send_personal_message prints.
Anotar(d, reg, ok) ==
    [d EXCEPT
        !.enviados = Append(@, [ws |-> d.ws, ok |-> ok]),
        !.disconnected =
            IF ~ok /\ d.op = "broadcast"
            THEN Append(@, [user_id |-> reg[d.slot].user_id, ws |-> d.ws])
            ELSE @]

\* broadcast from the end of one send to the start of the next.  The list
\* iterator goes on at the next index of the list as it is now; the dict
\* iterator raises RuntimeError when the dict has changed size, and otherwise
\* goes on at the next entry that is no hole.
SiguienteBroadcast(reg, d) ==
    IF d.slot # 0 /\ d.j + 1 <= Len(reg[d.slot].connections)
    THEN [d EXCEPT !.j = d.j + 1, !.ws = reg[d.slot].connections[d.j + 1]]
    ELSE IF Cardinality(Vivas(reg)) # d.n0
    THEN [d EXCEPT !.pc = "error", !.error = "RuntimeError", !.ws = "none"]
    ELSE LET sig == {i \in Vivas(reg) : i > d.slot}
         IN  IF sig = {} THEN [d EXCEPT !.pc = "limpiar", !.ws = "none"]
             ELSE LET i == CHOOSE x \in sig : \A y \in sig : x <= y
                  IN  [d EXCEPT !.slot = i, !.j = 1, !.ws = reg[i].connections[1]]

\* broadcast_to_admins from key k of its copy of the keys on: the role of the
\* user is read, and send_personal_message sends if the key is still there.
RECURSIVE SiguienteClave(_, _, _)
SiguienteClave(reg, d, k) ==
    IF k > Len(d.claves) THEN [d EXCEPT !.pc = "hecho", !.ws = "none", !.k = k]
    ELSE LET user_id == d.claves[k]
             user == PorId(user_id)
             admin == user # <<>> /\ user[1].role \in {"admin", "staff"}
         IN  IF (d.op = "broadcast_to_admins" => admin) /\ EnClaves(reg, user_id)
             THEN LET i == RanuraDe(reg, user_id)
                  IN  [d EXCEPT !.k = k, !.slot = i, !.j = 1,
                                !.ws = reg[i].connections[1]]
             ELSE SiguienteClave(reg, d, k + 1)

\* send_personal_message without its try/except: the exception of a send
\* ends the fan-out.
SiguientePersonalSinTry(reg, d) ==
    IF d.enviados # <<>> /\ ~d.enviados[Len(d.enviados)].ok
    THEN [d EXCEPT !.pc = "error", !.error = "Exception", !.ws = "none"]
    ELSE IF d.slot # 0 /\ d.j + 1 <= Len(reg[d.slot].connections)
    THEN [d EXCEPT !.j = d.j + 1, !.ws = reg[d.slot].connections[d.j + 1]]
    ELSE SiguienteClave(reg, d, d.k + 1)

\* send_personal_message from the end of one send to the start of the next.
SiguientePersonal(reg, d) ==
    IF d.slot # 0 /\ d.j + 1 <= Len(reg[d.slot].connections)
    THEN [d EXCEPT !.j = d.j + 1, !.ws = reg[d.slot].connections[d.j + 1]]
    ELSE SiguienteClave(reg, d, d.k + 1)

\* The fan-out goes on to its next await, or to its end.
Seguir(reg, d) ==
    LET d2 == IF d.op = "broadcast" THEN SiguienteBroadcast(reg, d)
              ELSE SiguientePersonal(reg, d)
        r == IF d2.pc = "limpiar" THEN Limpiar(reg, d2.disconnected)
             ELSE [registro |-> reg, error |-> "none"]
    IN  /\ active_connections' = r.registro
        /\ difusion' =
              IF d2.pc = "limpiar"
              THEN [d2 EXCEPT !.pc = IF r.error = "none" THEN "hecho" ELSE "error",
                              !.error = r.error]
              ELSE d2

\* websocket_pedidos up to its receive loop, or to its end.
websocket_pedidos(w, token, accept) ==
    LET user == PorEmail(token) IN
    /\ sockets[w].pc = "nuevo"
    /\ IF Rechazado(token)
       THEN /\ sockets' = [sockets EXCEPT ![w] =
                    [pc |-> "cerrado", token |-> token, code |-> 1008,
                     user_id |-> 0, vivo |-> TRUE]]
            /\ active_connections' = active_connections
       ELSE IF accept
       THEN /\ sockets' = [sockets EXCEPT ![w] =
                    [pc |-> "abierto", token |-> token, code |-> 0,
                     user_id |-> user[1].id, vivo |-> TRUE]]
            /\ active_connections' = connect(active_connections, w, user[1].id)
       ELSE LET r == disconnect(active_connections, w, user[1].id)
            IN  /\ sockets' = [sockets EXCEPT ![w] =
                        [pc |-> IF r.error = "none" THEN "terminado" ELSE "error",
                         token |-> token, code |-> 0,
                         user_id |-> user[1].id, vivo |-> FALSE]]
                /\ active_connections' = r.registro
    /\ UNCHANGED <<difusion, filtros, exportado>>
    /\ UNCHANGED ajeno

\* The client of an open socket goes away: every send to it fails from now.
Caer(w) ==
    /\ sockets[w].pc = "abierto"
    /\ sockets[w].vivo
    /\ sockets' = [sockets EXCEPT ![w].vivo = FALSE]
    /\ UNCHANGED <<active_connections, difusion, filtros, exportado>>
    /\ UNCHANGED ajeno

\* receive_text raises WebSocketDisconnect and the `finally` of the endpoint
\* calls manager.disconnect.
Cerrar(w) ==
    LET r == disconnect(active_connections, w, sockets[w].user_id) IN
    /\ sockets[w].pc = "abierto"
    /\ ~sockets[w].vivo
    /\ sockets' = [sockets EXCEPT
          ![w].pc = IF r.error = "none" THEN "terminado" ELSE "error"]
    /\ active_connections' = r.registro
    /\ UNCHANGED <<difusion, filtros, exportado>>
    /\ UNCHANGED ajeno

\* A fan-out starts and runs to its first `await connection.send_json`, or
\* to its end when it finds nothing to send.
Emitir(op, user_id) ==
    LET reg == active_connections
        d == [SinDifusion EXCEPT
                !.pc = "enviando", !.op = op,
                !.claves = IF op = "broadcast" THEN <<>>
                           ELSE IF op = "broadcast_to_admins" THEN Claves(reg)
                           ELSE <<user_id>>,
                !.n0 = Cardinality(Vivas(reg)),
                !.inicial = IF op = "send_personal_message"
                            THEN IF EnClaves(reg, user_id)
                                 THEN Rango(reg[RanuraDe(reg, user_id)].connections)
                                 ELSE {}
                            ELSE Registrados(reg)]
    IN
    /\ difusion.pc = "idle"
    /\ Seguir(reg, d)
    /\ UNCHANGED <<sockets, filtros, exportado>>
    /\ UNCHANGED ajeno

\* The send the fan-out waits for ends, well or with an exception, and the
\* fan-out goes on.
Envio ==
    /\ difusion.pc = "enviando"
    /\ Seguir(active_connections,
              Anotar(difusion, active_connections, sockets[difusion.ws].vivo))
    /\ UNCHANGED <<sockets, filtros, exportado>>
    /\ UNCHANGED ajeno

\* The fan-out returns, or its exception reaches its caller.
Retorno ==
    /\ difusion.pc \in {"hecho", "error"}
    /\ difusion' = SinDifusion
    /\ UNCHANGED <<sockets, active_connections, filtros, exportado>>
    /\ UNCHANGED ajeno

Conexion ==
    \E w \in Sockets, token \in JWTs, accept \in BOOLEAN :
        websocket_pedidos(w, token, accept)

Caida == \E w \in Sockets : Caer(w)

Cierre == \E w \in Sockets : Cerrar(w)

Emision ==
    \/ Emitir("broadcast", 0)
    \/ Emitir("broadcast_to_admins", 0)
    \/ \E user_id \in {1, 2} : Emitir("send_personal_message", user_id)

NextWS == Conexion \/ Caida \/ Cierre \/ Emision \/ Envio \/ Retorno

SpecWS == Init /\ [][NextWS]_vars

\* No client connects and no endpoint ends while a fan-out is under way.
Quieto == difusion.pc = "idle"

NextWSQuieto ==
    \/ Quieto /\ Conexion
    \/ Caida
    \/ Quieto /\ Cierre
    \/ Emision
    \/ Envio
    \/ Retorno

SpecWSQuieto == Init /\ [][NextWSQuieto]_vars

\* ============================================================== CSV export
\* exportar_pedidos_csv, the header row (the accents of the labels left out).
Encabezados ==
    <<"ID", "Telegram User ID", "Username", "Prioridad", "Estado",
      "Fecha Solicitada", "Hora Solicitada", "Resumen Items",
      "Notas", "Asignado A", "Fecha Creacion", "Fecha Confirmacion",
      "Fecha Preparacion", "Fecha Listo", "Fecha Completado">>

\* exportar_pedidos_csv, the attributes of p a data row is made of, in the
\* order of the list it writes.
Escritos ==
    <<"id", "telegram_user_id", "telegram_username", "prioridad", "estado",
      "fecha_solicitada", "hora_solicitada", "resumen_items",
      "notas_adicionales", "asignado_a", "fecha_creacion", "fecha_confirmacion",
      "fecha_preparacion", "fecha_listo", "fecha_completado">>

\* One data row: a cell per attribute, each remembering the attribute it was
\* read from.  The id of a row is its place in the table; an attribute the
\* lifecycle keeps no value for is written empty.
FilaCSV(pedido_id) ==
    [n \in 1..Len(Escritos) |->
        [atributo |-> Escritos[n],
         valor |-> IF Escritos[n] = "id" THEN pedido_id
                   ELSE IF Escritos[n] \in Columnas THEN pedidos[pedido_id][Escritos[n]]
                   ELSE None]]

\* query.filter(Pedido.estado == estado).all(), when estado is given.
Consulta(estado) ==
    LET RECURSIVE desde(_)
        desde(i) ==
            IF i > Len(pedidos) THEN <<>>
            ELSE IF estado = None \/ pedidos[i].estado = estado
                 THEN <<i>> \o desde(i + 1)
                 ELSE desde(i + 1)
    IN desde(1)

\* GET /export/csv: the header, then one row per order of the query.
exportar_pedidos_csv(estado) ==
    LET ids == Consulta(estado) IN
    /\ Libre
    /\ exportado = <<>>
    /\ exportado' = <<[encabezados |-> Encabezados,
                       filas |-> [k \in 1..Len(ids) |-> FilaCSV(ids[k])]]>>
    /\ UNCHANGED <<sockets, active_connections, difusion, filtros>>
    /\ UNCHANGED ajeno

\* The Response leaves with the file.
Descarga ==
    /\ exportado # <<>>
    /\ exportado' = <<>>
    /\ UNCHANGED <<sockets, active_connections, difusion, filtros>>
    /\ UNCHANGED ajeno

Exportacion ==
    \E estado \in {None, COMPLETADO, CANCELADO} : exportar_pedidos_csv(estado)

\* No request is taken while a file is being returned.
SinArchivo == exportado = <<>>

NextExport ==
    \/ SinArchivo /\ CreacionN
    \/ SinArchivo /\ RestUnaALaVez
    \/ SinArchivo /\ \E r \in Requests : Commit(r)
    \/ SinArchivo /\ \E r \in Requests : Responder(r)
    \/ Exportacion
    \/ Descarga

SpecExport == Init /\ [][NextExport]_vars

\* =========================================================== saved filters
\* FiltroGuardadoCreate and FiltroGuardadoUpdate; an Optional[bool] is a
\* sequence of at most one value.  An update changes the name and the JSON
\* together or neither.
FiltroGuardadoCreate ==
    [nombre : {"hoy"}, filtros_json : {"{}"}, is_default : BOOLEAN]

FiltroGuardadoUpdate ==
    {[nombre |-> None, filtros_json |-> None, is_default |-> d] :
        d \in {<<>>, <<TRUE>>, <<FALSE>>}}
    \cup
    {[nombre |-> "urgentes", filtros_json |-> "[]", is_default |-> d] :
        d \in {<<>>, <<TRUE>>, <<FALSE>>}}

\* An update that leaves every row as it is.
DesmarcarNada(tabla, usuario_id, salvo) == tabla

\* query.filter(usuario_id == current_user.id [, id != filtro_id])
\*      .update({"is_default": False}); guardar_filtro excludes no id.
Desmarcar(tabla, usuario_id, salvo) ==
    [i \in 1..Len(tabla) |->
        IF tabla[i].usuario_id = usuario_id /\ tabla[i].id # salvo
        THEN [tabla[i] EXCEPT !.is_default = FALSE]
        ELSE tabla[i]]

\* query.filter(id == filtro_id, usuario_id == current_user.id).first(): the
\* places of the table that hold such a row.
Propio(usuario_id, filtro_id) ==
    {i \in 1..Len(filtros.tabla) :
        /\ filtros.tabla[i].id = filtro_id
        /\ filtros.tabla[i].usuario_id = usuario_id}

\* The table without the row at place i.
SinLaFila(tabla, i) ==
    [k \in 1..(Len(tabla) - 1) |-> IF k < i THEN tabla[k] ELSE tabla[k + 1]]

\* POST /filtros.
guardar_filtro(usuario_id, filtro_data) ==
    LET filtro == [id |-> filtros.ultimo + 1,
                   usuario_id |-> usuario_id,
                   nombre |-> filtro_data.nombre,
                   filtros_json |-> filtro_data.filtros_json,
                   is_default |-> filtro_data.is_default]
        desmarcada == IF filtro_data.is_default
                      THEN Desmarcar(filtros.tabla, usuario_id, 0)
                      ELSE filtros.tabla
    IN
    /\ filtros.pc = "idle"
    /\ filtros.ultimo < MaxFiltros
    /\ filtros' = [filtros EXCEPT !.tabla = Append(desmarcada, filtro),
                                  !.ultimo = filtro.id,
                                  !.pc = "respondiendo",
                                  !.op = "guardar_filtro",
                                  !.usuario = usuario_id,
                                  !.filtro_id = filtro.id,
                                  !.status = 200,
                                  !.fila = filtro]
    /\ UNCHANGED <<sockets, active_connections, difusion, exportado>>
    /\ UNCHANGED ajeno

\* PUT /filtros/{filtro_id}.
actualizar_filtro(usuario_id, filtro_id, filtro_data) ==
    LET hallados == Propio(usuario_id, filtro_id) IN
    /\ filtros.pc = "idle"
    /\ IF hallados = {}
       THEN filtros' = [filtros EXCEPT !.pc = "respondiendo",
                                       !.op = "actualizar_filtro",
                                       !.usuario = usuario_id,
                                       !.filtro_id = filtro_id,
                                       !.status = 404]
       ELSE LET i == CHOOSE h \in hallados : TRUE
                filtro == filtros.tabla[i]
                desmarcada ==
                    IF /\ filtro_data.is_default = <<TRUE>>
                       /\ filtro_data.is_default[1] # filtro.is_default
                    THEN Desmarcar(filtros.tabla, usuario_id, filtro_id)
                    ELSE filtros.tabla
                nuevo ==
                    [filtro EXCEPT
                        !.nombre = IF filtro_data.nombre # None
                                   THEN filtro_data.nombre ELSE @,
                        !.filtros_json = IF filtro_data.filtros_json # None
                                         THEN filtro_data.filtros_json ELSE @,
                        !.is_default = IF filtro_data.is_default # <<>>
                                       THEN filtro_data.is_default[1] ELSE @]
            IN filtros' = [filtros EXCEPT !.tabla = [desmarcada EXCEPT ![i] = nuevo],
                                          !.pc = "respondiendo",
                                          !.op = "actualizar_filtro",
                                          !.usuario = usuario_id,
                                          !.filtro_id = filtro_id,
                                          !.status = 200,
                                          !.fila = nuevo]
    /\ UNCHANGED <<sockets, active_connections, difusion, exportado>>
    /\ UNCHANGED ajeno

\* DELETE /filtros/{filtro_id}.
eliminar_filtro(usuario_id, filtro_id) ==
    LET hallados == Propio(usuario_id, filtro_id) IN
    /\ filtros.pc = "idle"
    /\ IF hallados = {}
       THEN filtros' = [filtros EXCEPT !.pc = "respondiendo",
                                       !.op = "eliminar_filtro",
                                       !.usuario = usuario_id,
                                       !.filtro_id = filtro_id,
                                       !.status = 404]
       ELSE LET i == CHOOSE h \in hallados : TRUE IN
            filtros' = [filtros EXCEPT !.tabla = SinLaFila(@, i),
                                       !.pc = "respondiendo",
                                       !.op = "eliminar_filtro",
                                       !.usuario = usuario_id,
                                       !.filtro_id = filtro_id,
                                       !.status = 200]
    /\ UNCHANGED <<sockets, active_connections, difusion, exportado>>
    /\ UNCHANGED ajeno

\* The response leaves.
ResponderFiltro ==
    /\ filtros.pc = "respondiendo"
    /\ filtros' = [SinFiltros EXCEPT !.tabla = filtros.tabla,
                                     !.ultimo = filtros.ultimo]
    /\ UNCHANGED <<sockets, active_connections, difusion, exportado>>
    /\ UNCHANGED ajeno

\* current_user is whoever the token says; the ids asked for are those the
\* key has given out and one it has not.
Guardado ==
    \E usuario_id \in Usuarios, filtro_data \in FiltroGuardadoCreate :
        guardar_filtro(usuario_id, filtro_data)

Actualizacion ==
    \E usuario_id \in Usuarios, filtro_id \in 1..(MaxFiltros + 1),
       filtro_data \in FiltroGuardadoUpdate :
        actualizar_filtro(usuario_id, filtro_id, filtro_data)

Eliminacion ==
    \E usuario_id \in Usuarios, filtro_id \in 1..(MaxFiltros + 1) :
        eliminar_filtro(usuario_id, filtro_id)

NextFiltros ==
    \/ Guardado
    \/ Actualizacion
    \/ Eliminacion
    \/ ResponderFiltro

SpecFiltros == Init /\ [][NextFiltros]_vars

\* ================================================================== claims
\* What the statements below read off the two tables.
CamposFecha ==
    {"fecha_confirmacion", "fecha_preparacion", "fecha_listo",
     "fecha_completado", "fecha_cancelado"}

FilasDe(pedido_id) == {i \in 1..Len(historial) : historial[i].pedido_id = pedido_id}

\* This step appended one history row, for this order.
FilaNueva(pedido_id) ==
    /\ Len(historial') = Len(historial) + 1
    /\ historial'[Len(historial')].pedido_id = pedido_id

\* This step changed the estado or a lifecycle timestamp of this order.
Mutacion(pedido_id) ==
    \/ pedidos'[pedido_id].estado # pedidos[pedido_id].estado
    \/ \E f \in CamposFecha : pedidos'[pedido_id][f] # pedidos[pedido_id][f]

\* The session of r has loaded its order.
Cargo(r) == req[r].cargado # SinAsignar

\* r's commit went through and its response is about to go out.
Confirmada(r) == Respondiendo(r) /\ Cargo(r) /\ req[r].pc \in {"http_200", "bot_respondido"}

\* ---------------------------------------------------------------------- C1
\* C1: the order mutation and its history row persist together or not at
\* all.  No step changes an order's estado or lifecycle timestamps without
\* appending the history row of that transition, and no step appends a history
\* row without the mutation it records: the estado it names (when the
\* transition changed the estado it had loaded) and the timestamp of that
\* state are in the order's row.  A commit that fails persists neither.
C1_Atomico ==
    [][\A o \in 1..Len(pedidos) :
         LET h == historial'[Len(historial')] IN
         /\ Mutacion(o) => FilaNueva(o)
         /\ FilaNueva(o) =>
               /\ h.estado_nuevo # h.estado_anterior => pedidos'[o].estado = h.estado_nuevo
               /\ h.estado_nuevo # PENDIENTE_CONFIRMACION => Mutacion(o)
         /\ (\E r \in Requests : req'[r].pc \in {"http_500", "bot_error"}) =>
               UNCHANGED <<pedidos, historial>>]_vars

\* One transition committed and another one rolled back.
C1_Witness ==
    \E r \in Requests :
        /\ req[r].pc = "http_500"
        /\ Len(historial) = 1
        /\ pedidos[1].estado = historial[1].estado_nuevo
        /\ pedidos[1].estado = CONFIRMADO
        /\ pedidos[1].fecha_confirmacion # NULL

\* ---------------------------------------------------------------------- C2
\* C2: a request whose nuevo_estado is none of the six values ends in an
\* invalid-state error (422 from the schema, 400 from the handler), the step
\* that rejects it changes no order and no history row, and the estado of
\* every order is one of the six values.
C2_EstadoInvalido ==
    /\ [](\A o \in 1..Len(pedidos) : pedidos[o].estado \in EstadoPedidoEnum)
    /\ [](\A r \in Requests :
            (req[r].pc # "idle" /\ req[r].nuevo_estado \notin EstadoPedidoEnum)
                => req[r].pc \in {"http_422", "http_400"})
    /\ [][\A r \in Requests :
            (req'[r].pc \in {"http_422", "http_400"} /\ req[r].pc = "idle")
                => UNCHANGED <<pedidos, historial>>]_vars

\* A bogus state asked of an order that exists and has already moved.
C2_Witness ==
    \E r \in Requests :
        /\ req[r].pc = "http_422"
        /\ req[r].nuevo_estado = "bogus_state"
        /\ Existe(req[r].pedido_id)
        /\ Len(historial) = 1

\* ---------------------------------------------------------------------- C3
\* C3: a transition asked for an id that has no order fails with NotFound and
\* writes nothing, over REST and over the bot.
C3_NoEncontrado ==
    [][\A r \in Requests :
         (/\ req[r].pc = "idle"
          /\ req'[r].pc # "idle"
          /\ req'[r].nuevo_estado \in EstadoPedidoEnum
          /\ ~Existe(req'[r].pedido_id))
         => (req'[r].pc = "http_404" /\ UNCHANGED <<pedidos, historial>>)]_vars

\* ---------------------------------------------------------------------- C4
\* C4: no pair of states is refused.  A request for an order that exists and
\* a state among the six is never rejected, whatever estado the order has,
\* and when its commit goes through the order's estado is the state asked for.
C4_CualquierPar ==
    [][\A r \in Requests :
         /\ (/\ req[r].pc = "idle"
              /\ req'[r].pc # "idle"
              /\ req'[r].nuevo_estado \in EstadoPedidoEnum
              /\ Existe(req'[r].pedido_id))
             => (req'[r].pc = "cargado" /\ req'[r].cargado.estado = pedidos[req'[r].pedido_id].estado)
         /\ (req[r].pc = "cargado" /\ Len(historial') > Len(historial) /\ req'[r].pc # "cargado")
             => (/\ req'[r].pc \in {"http_200", "bot_respondido"}
                 /\ pedidos'[req[r].pedido_id].estado = req[r].nuevo_estado)]_vars

\* An order taken out of completado or cancelado, back to an earlier state.
C4_Witness ==
    \E r \in Requests :
        /\ Confirmada(r)
        /\ req[r].cargado.estado \in {COMPLETADO, CANCELADO}
        /\ req[r].nuevo_estado \in {PENDIENTE_CONFIRMACION, CONFIRMADO}
        /\ pedidos[req[r].pedido_id].estado = req[r].nuevo_estado

\* ---------------------------------------------------------------------- C5
\* The states a transition has taken the order into.
Alcanzados(pedido_id) == {historial[i].estado_nuevo : i \in FilasDe(pedido_id)}

FechasPuestas(pedido_id) == {f \in CamposFecha : pedidos[pedido_id][f] # NULL}

\* C5 as claimed: the number of non-null lifecycle timestamps of an order is
\* the number of distinct states it has passed through, the state it was
\* created in included.
C5_Original ==
    \A o \in 1..Len(pedidos) :
        Cardinality(FechasPuestas(o)) =
            Cardinality({PENDIENTE_CONFIRMACION} \cup Alcanzados(o))

\* C5 as amended: the number of non-null lifecycle timestamps of an order is
\* the number of distinct states other than pendiente_confirmacion that a
\* transition has taken it into.
C5_Enmendada ==
    \A o \in 1..Len(pedidos) :
        Cardinality(FechasPuestas(o)) =
            Cardinality(Alcanzados(o) \ {PENDIENTE_CONFIRMACION})

\* An order that went through two stamped states.
C5_Witness ==
    \E o \in 1..Len(pedidos) :
        /\ Cardinality(FechasPuestas(o)) = 2
        /\ Cardinality(Alcanzados(o)) = 2

\* ---------------------------------------------------------------------- C6
\* The timestamp column of each state, as the claim pairs them.
FechaDelEstado ==
    [confirmado |-> "fecha_confirmacion",
     en_preparacion |-> "fecha_preparacion",
     listo_para_recoger |-> "fecha_listo",
     completado |-> "fecha_completado",
     cancelado |-> "fecha_cancelado"]

\* C6: the timestamp of a state is non-null exactly when a transition has
\* taken the order into that state; a step changes a timestamp only by
\* appending the history row of a transition into the state of that
\* timestamp, so a transition into pendiente_confirmacion changes none.
C6_FechaSiVisitado ==
    /\ [](\A o \in 1..Len(pedidos) : \A s \in DOMAIN FechaDelEstado :
            pedidos[o][FechaDelEstado[s]] # NULL <=> s \in Alcanzados(o))
    /\ [][\A o \in 1..Len(pedidos) : \A f \in CamposFecha :
            pedidos'[o][f] # pedidos[o][f] =>
                /\ FilaNueva(o)
                /\ historial'[Len(historial')].estado_nuevo \in DOMAIN FechaDelEstado
                /\ FechaDelEstado[historial'[Len(historial')].estado_nuevo] = f]_vars

\* An order made ready and then put back to pendiente_confirmacion.
C6_Witness ==
    \E o \in 1..Len(pedidos) :
        /\ pedidos[o].estado = PENDIENTE_CONFIRMACION
        /\ pedidos[o].fecha_listo # NULL
        /\ FechasPuestas(o) = {"fecha_listo"}
        /\ Cardinality(FilasDe(o)) = 2

\* ---------------------------------------------------------------------- C7
\* C7: once fecha_cancelado is recorded no later transition changes it.
C7_CanceladoFijo ==
    [][\A o \in 1..Len(pedidos) :
         pedidos[o].fecha_cancelado # NULL =>
             pedidos'[o].fecha_cancelado = pedidos[o].fecha_cancelado]_vars

\* ---------------------------------------------------------------------- C8
\* r's commit goes through in this step.
Confirma(r) ==
    req[r].pc = "cargado" /\ req'[r].pc \in {"http_200", "bot_respondido"}

\* C8: the history only grows, one row per transition committed.  Every step
\* keeps the rows there are; a step appends a row exactly when it commits a
\* transition, the transition into the state the order already has included,
\* and the row is that transition's; creating an order or editing its fields
\* appends none.
C8_SoloAnade ==
    [][/\ Len(historial') \in {Len(historial), Len(historial) + 1}
       /\ SubSeq(historial', 1, Len(historial)) = historial
       /\ Len(historial') = Len(historial) + 1 <=> \E r \in Requests : Confirma(r)
       /\ \A r \in Requests : Confirma(r) =>
             /\ historial'[Len(historial')].pedido_id = req[r].pedido_id
             /\ historial'[Len(historial')].estado_nuevo = req[r].nuevo_estado
       /\ Len(pedidos') # Len(pedidos) => historial' = historial]_vars

\* A transition into the state the order had, on an order whose fields were
\* edited.
C8_Witness ==
    \E i \in 1..Len(historial) :
        /\ historial[i].estado_anterior = historial[i].estado_nuevo
        /\ pedidos[historial[i].pedido_id].asignado_a # None

\* ---------------------------------------------------------------------- C9
Cadena(pedido_id) == SelectSeq(historial, LAMBDA h : h.pedido_id = pedido_id)

\* C9: when the transitions of an order run one at a time its history rows
\* chain: the first starts from pendiente_confirmacion, each next one starts
\* from the state the one before ended in, and the last ends in the order's
\* estado.
C9_Cadena ==
    \A o \in 1..Len(pedidos) :
        LET c == Cadena(o) IN
        /\ Len(c) > 0 =>
              /\ c[1].estado_anterior = PENDIENTE_CONFIRMACION
              /\ c[Len(c)].estado_nuevo = pedidos[o].estado
        /\ \A i \in 2..Len(c) : c[i].estado_anterior = c[i - 1].estado_nuevo

\* Two transitions of one order, the first out of pendiente_confirmacion.
C9_Witness ==
    \E o \in 1..Len(pedidos) :
        /\ Len(Cadena(o)) = 2
        /\ Cadena(o)[1].estado_nuevo # PENDIENTE_CONFIRMACION
        /\ Cadena(o)[2].estado_nuevo # Cadena(o)[1].estado_nuevo

\* --------------------------------------------------------------------- C10
\* The row before the last one among the rows of an order, 0 if there is none.
Anterior(pedido_id) ==
    LET previas == {i \in FilasDe(pedido_id) : i < Len(historial)}
    IN  IF previas = {} THEN 0
        ELSE CHOOSE i \in previas : \A j \in previas : j <= i

\* C10: requests may interleave, and still no history row is lost and the
\* estado is the target of one of them.  Every step keeps the rows there are;
\* once a request has committed, its row is the last one, and the order's
\* estado is the state it asked for or the state asked for by the request
\* that committed on that order just before it.
C10_Carrera ==
    /\ [][/\ Len(historial') >= Len(historial)
           /\ SubSeq(historial', 1, Len(historial)) = historial]_vars
    /\ [](\A r \in Requests : Confirmada(r) =>
            LET n == Len(historial)
                o == req[r].pedido_id
                k == Anterior(req[r].pedido_id)
            IN  /\ n >= 1
                /\ historial[n].pedido_id = o
                /\ historial[n].estado_anterior = req[r].cargado.estado
                /\ historial[n].estado_nuevo = req[r].nuevo_estado
                /\ pedidos[o].estado \in
                      {req[r].nuevo_estado} \cup
                      (IF k = 0 THEN {} ELSE {historial[k].estado_nuevo}))

\* Both requests loaded the order in the same state, asked for two other
\* states, and both have committed.
C10_Witness ==
    \E r \in Requests :
        /\ Confirmada(r)
        /\ Len(historial) = 2
        /\ historial[1].pedido_id = historial[2].pedido_id
        /\ historial[1].estado_anterior = historial[2].estado_anterior
        /\ historial[1].estado_nuevo # historial[1].estado_anterior
        /\ historial[2].estado_nuevo # historial[2].estado_anterior
        /\ historial[1].estado_nuevo # historial[2].estado_nuevo
        /\ pedidos[req[r].pedido_id].estado = historial[2].estado_nuevo

\* --------------------------------------------------------------------- C11
\* The order object a handler holds for the order with this id.
Objeto(pedido_id) ==
    [id |-> pedido_id,
     telegram_user_id |-> pedidos[pedido_id].telegram_user_id,
     resumen_items |-> pedidos[pedido_id].resumen_items]

\* C11: notificar_cambio_estado is defined on each of the six states.  For
\* pendiente_confirmacion it gives None; for each of the other five it gives
\* one intent of type cambio_estado, addressed to the order's
\* telegram_user_id, for that order, whose text is the template of that state
\* with the order id and its resumen_items in it.
C11_MapeoTotal ==
    \A o \in 1..Len(pedidos) : \A e \in EstadoPedidoEnum :
        LET n == notificar_cambio_estado(Objeto(o), e) IN
        IF e = PENDIENTE_CONFIRMACION THEN n = <<>>
        ELSE /\ Len(n) = 1
             /\ n[1].tipo_notificacion = "cambio_estado"
             /\ n[1].telegram_user_id = pedidos[o].telegram_user_id
             /\ n[1].pedido_id = o
             /\ n[1].mensaje.plantilla = e
             /\ n[1].mensaje.pedido_id = o
             /\ n[1].mensaje.resumen_items = pedidos[o].resumen_items

\* The text for completado went out to the user of the second message, with
\* the id and the summary of that user's order.
C11_Witness ==
    \E i \in 1..Len(intentos) : \E o \in 1..Len(pedidos) :
        /\ intentos[i].text.plantilla = COMPLETADO
        /\ intentos[i].text.pedido_id = o
        /\ intentos[i].text.resumen_items = "cafe"
        /\ pedidos[o].resumen_items = "cafe"
        /\ intentos[i].chat_id = 102
        /\ pedidos[o].telegram_user_id = 102

\* --------------------------------------------------------------------- C12
\* C12: on either path, the step that ends a committed transition into a
\* state other than pendiente_confirmacion leaves one new task holding an
\* intent for that order, and the step that ends one into
\* pendiente_confirmacion leaves none holding an intent; a task holding an
\* intent makes, when it runs, one send to the order's Telegram user, and a
\* task holding none makes no send and writes no row.
C12_IntentoPorTransicion ==
    [][/\ \A r \in Requests :
            (Confirmada(r) /\ req'[r].pc = "idle") =>
                IF req[r].nuevo_estado # PENDIENTE_CONFIRMACION
                THEN /\ Len(tareas') = Len(tareas) + 1
                     /\ tareas'[Len(tareas')].pedido.id = req[r].pedido_id
                     /\ notificar_cambio_estado(tareas'[Len(tareas')].pedido,
                                                tareas'[Len(tareas')].nuevo_estado) # <<>>
                ELSE \A i \in (Len(tareas) + 1)..Len(tareas') :
                        notificar_cambio_estado(tareas'[i].pedido,
                                                tareas'[i].nuevo_estado) = <<>>
       /\ Len(tareas') < Len(tareas) =>
            \E i \in 1..Len(tareas) :
                /\ tareas' = Quitar(tareas, i)
                /\ IF notificar_cambio_estado(tareas[i].pedido, tareas[i].nuevo_estado) = <<>>
                   THEN intentos' = intentos /\ notificaciones' = notificaciones
                   ELSE /\ Len(intentos') = Len(intentos) + 1
                        /\ SubSeq(intentos', 1, Len(intentos)) = intentos
                        /\ intentos'[Len(intentos')].chat_id =
                               tareas[i].pedido.telegram_user_id]_vars

\* --------------------------------------------------------------------- C13
\* C13: a step makes at most one send.  A send that succeeds comes with one
\* new row with exitoso true and with True returned; a send that fails comes
\* with one new row with exitoso false and the error text and with False
\* returned, never with an exception; no step changes a row there is.
C13_UnIntentoUnaFila ==
    [][/\ Len(intentos') \in {Len(intentos), Len(intentos) + 1}
       /\ Len(notificaciones') >= Len(notificaciones)
       /\ SubSeq(notificaciones', 1, Len(notificaciones)) = notificaciones
       /\ Len(intentos') = Len(intentos) + 1 =>
            /\ Len(notificaciones') = Len(notificaciones) + 1
            /\ LET intento == intentos'[Len(intentos')]
                   fila == notificaciones'[Len(notificaciones')]
               IN  /\ fila.telegram_user_id = intento.chat_id
                   /\ fila.mensaje = intento.text
                   /\ IF intento.resultado = "ok"
                      THEN fila.exitoso /\ retorno' = "True"
                      ELSE ~fila.exitoso /\ fila.error # None /\ retorno' = "False"
       /\ Len(intentos') = Len(intentos) => notificaciones' = notificaciones]_vars

\* --------------------------------------------------------------------- C14
\* C14: a notification never touches a transition.  A task exists, and a send
\* is made, only for a transition whose history row is there already; and no
\* step that runs a task, makes a send or writes a notification row changes
\* an order or the history, whatever the outcome of the send.
C14_EntregaNoAltera ==
    /\ [](\A i \in 1..Len(tareas) : \E k \in 1..Len(historial) :
            /\ historial[k].pedido_id = tareas[i].pedido.id
            /\ historial[k].estado_nuevo = tareas[i].nuevo_estado)
    /\ [](\A i \in 1..Len(intentos) : \E k \in 1..Len(historial) :
            /\ historial[k].pedido_id = intentos[i].text.pedido_id
            /\ historial[k].estado_nuevo = intentos[i].text.plantilla)
    /\ [][(\/ Len(tareas') < Len(tareas)
           \/ intentos' # intentos
           \/ notificaciones' # notificaciones)
          => UNCHANGED <<pedidos, historial>>]_vars

\* A send failed each way, and the order is still completado with its history
\* row and its timestamp.
C14_Witness ==
    /\ Len(intentos) = 2
    /\ intentos[1].resultado = "TelegramError"
    /\ intentos[2].resultado = "Exception"
    /\ tareas = <<>>
    /\ Len(pedidos) = 1
    /\ pedidos[1].estado = COMPLETADO
    /\ pedidos[1].fecha_completado # NULL
    /\ Len(historial) = 2
    /\ historial[2].estado_nuevo = COMPLETADO

\* --------------------------------------------------------------------- C15
\* The step in which a handler takes the classifier's answer.
Clasifica == chat.pc = "analizando" /\ chat'.pc # "analizando"

BienFormadas(lista) == \A k \in 1..Len(lista) : ~FechaInvalida(lista[k])

Malformada(a) ==
    \/ a.texto \in {"no_json", "no_objeto"}
    \/ /\ a.texto = "objeto"
       /\ a.es_pedido = "true"
       /\ ~BienFormadas(a.pedidos)

\* C16: when the classifier's answer is malformed, the handler keeps the
\* message's LogMensaje row, creates no Pedido row and sends the reply that
\* says the analysis failed, which is not the reply to a message that is no
\* order.
C16_FalloSuave ==
    [][(Clasifica /\ Malformada(chat'.analisis)) =>
            /\ Len(logs') = Len(logs)
            /\ logs'[chat.log].mensaje_id = chat.mensaje.mensaje_id
            /\ pedidos' = pedidos
            /\ chat'.pc = "respondido"
            /\ chat'.respuesta \in {"error_analisis", "sin_analisis"}]_vars

\* --------------------------------------------------------------------- C17
\* The step in which call a of /refresh, having revoked, creates and returns.
Rota(a) == auth[a].pc = "revocado" /\ auth'[a].pc = "http_200"

\* The step in which call a of /refresh is received and its token verified.
Presenta(a) == auth[a].pc = "idle" /\ auth'[a].op = "refresh"

\* C17: the step that ends a /refresh with 200 leaves the presented token
\* revoked and adds exactly one row: for the user of the presented token, not
\* revoked, not past its expiry, and with the token the call returns; and a
\* /refresh that presents a revoked token ends with 401.
C17_Rotacion ==
    [][\A a \in Llamadas :
          /\ Rota(a) =>
                /\ tokens'[auth[a].token].is_revoked
                /\ Len(tokens') = Len(tokens) + 1
                /\ SubSeq(tokens', 1, Len(tokens)) = tokens
                /\ LET nueva == tokens'[Len(tokens')]
                   IN  /\ nueva.user_id = tokens[auth[a].token].user_id
                       /\ ~nueva.is_revoked
                       /\ ~(nueva.expires_at < utcnow')
                       /\ nueva.token # auth[a].token
                       /\ auth'[a].nuevo = nueva.token
          /\ (/\ Presenta(a)
              /\ auth'[a].token \in 1..Len(tokens)
              /\ tokens[auth'[a].token].is_revoked)
             => auth'[a].pc = "http_401"]_vars

\* A /refresh has just answered 200: its token is revoked and the last row
\* is the token it returns.
C17_Witness ==
    \E a \in Llamadas :
        /\ auth[a].op = "refresh"
        /\ auth[a].pc = "http_200"
        /\ tokens[auth[a].token].is_revoked
        /\ auth[a].nuevo = Len(tokens)
        /\ ~tokens[auth[a].nuevo].is_revoked
        /\ tokens[auth[a].nuevo].user_id = tokens[auth[a].token].user_id

\* --------------------------------------------------------------------- C18
\* C18: a /refresh that has ended has either both revoked the presented token
\* and created its replacement, or done neither.
C18_RotacionAtomica ==
    \A a \in Llamadas :
        (auth[a].op = "refresh" /\ auth[a].pc \in {"http_200", "http_500"})
            => (auth[a].revoco <=> auth[a].nuevo # 0)

\* --------------------------------------------------------------------- C19
\* C19: no step removes a token row or changes its token, user or expiry, and
\* none takes is_revoked from true to false; and the check of a presented
\* token yields a user only when a row with that token exists that is not
\* revoked and whose expiry has not passed.
C19_SoloRevocar ==
    [][/\ Len(tokens') >= Len(tokens)
       /\ \A i \in 1..Len(tokens) :
            /\ tokens'[i].token = tokens[i].token
            /\ tokens'[i].user_id = tokens[i].user_id
            /\ tokens'[i].expires_at = tokens[i].expires_at
            /\ tokens[i].is_revoked => tokens'[i].is_revoked
       /\ \A a \in Llamadas :
            (Presenta(a) /\ auth'[a].user_id # 0) =>
                \E i \in 1..Len(tokens) :
                    /\ tokens[i].token = auth'[a].token
                    /\ tokens[i].user_id = auth'[a].user_id
                    /\ ~tokens[i].is_revoked
                    /\ tokens[i].expires_at >= utcnow]_vars

\* A token has been verified on the very day it expires, while another token
\* of the same user is revoked.
C19_Witness ==
    \E a \in Llamadas :
        /\ auth[a].pc = "verificado"
        /\ tokens[auth[a].token].expires_at = utcnow
        /\ \E i \in 1..Len(tokens) :
              /\ tokens[i].is_revoked
              /\ tokens[i].user_id = auth[a].user_id

\* --------------------------------------------------------------------- C20
\* C20: while the server is up its scheduler holds a job that sweeps the
\* expired refresh tokens.
C20_BarridoPeriodico ==
    servidor = "up" => \E j \in trabajos : j.func = "cleanup_expired_tokens"

\* --------------------------------------------------------------------- C25
\* C25: whatever the interleaving of the calls of /refresh, no call answers
\* 200 for a token for which a call has answered 200 before: a refresh token
\* is redeemed at most once.
C25_UnSoloCanje ==
    [][\A a \in Llamadas : Rota(a) => auth[a].token \notin canjes]_vars

\* --------------------------------------------------------------------- C26
\* The step in which call a of /logout is received and answered.
Sale(a) == auth[a].pc = "idle" /\ auth'[a].op = "logout"

\* C26: a /logout revokes no row but one with the presented token and owned
\* by the caller, and a /logout with a token that is in no row answers 400
\* and leaves the table as it is.
C26_SoloElPropio ==
    [][\A a \in Llamadas :
          Sale(a) =>
            /\ \A i \in 1..Len(tokens) :
                  (tokens'[i].is_revoked /\ ~tokens[i].is_revoked) =>
                      /\ tokens[i].token = auth'[a].token
                      /\ tokens[i].user_id = auth'[a].user_id
            /\ (\A i \in 1..Len(tokens) : tokens[i].token # auth'[a].token) =>
                  (auth'[a].pc = "http_400" /\ tokens' = tokens)]_vars

\* --------------------------------------------------------------------- C30
\* How many proposals of the list come before the first whose date does not
\* parse: all of them when every date parses.
AntesDelFallo(lista) ==
    LET malas == {k \in 1..Len(lista) : FechaInvalida(lista[k])}
    IN  IF malas = {} THEN Len(lista)
        ELSE (CHOOSE k \in malas : \A j \in malas : k <= j) - 1

\* C30: the handler of a text or voice message that takes an answer with
\* es_pedido = true appends the rows of the proposals in the order proposed,
\* each in pendiente_confirmacion, up to the first proposal whose date does
\* not parse; when there is such a proposal the rows before it stay, none is
\* made for it or for those after it, and the handler ends without the reply
\* that asks for confirmation.  No step removes a row.
C30_ParcialEnOrden ==
    [][/\ Len(pedidos') >= Len(pedidos)
       /\ (Clasifica /\ chat'.analisis.es_pedido = "true") =>
            LET lista == chat'.analisis.pedidos
                n == AntesDelFallo(lista)
            IN  /\ Len(pedidos') = Len(pedidos) + n
                /\ SubSeq(pedidos', 1, Len(pedidos)) = pedidos
                /\ \A j \in 1..n :
                      /\ pedidos'[Len(pedidos) + j].resumen_items = lista[j].resumen_items
                      /\ pedidos'[Len(pedidos) + j].mensaje_id = chat.mensaje.mensaje_id
                      /\ pedidos'[Len(pedidos) + j].estado = PENDIENTE_CONFIRMACION
                /\ n < Len(lista) =>
                      /\ chat'.pc = "excepcion"
                      /\ chat'.respuesta = "ninguna"
                /\ (n = Len(lista) /\ n > 0) => chat'.respuesta = "pedidos_guardados"]_vars

\* The second of two proposals had a date that does not parse: the handler
\* has ended without a reply and the row of the first is there, pending.
C30_Witness ==
    /\ chat.pc = "excepcion"
    /\ chat.respuesta = "ninguna"
    /\ Len(chat.analisis.pedidos) = 2
    /\ ~FechaInvalida(chat.analisis.pedidos[1])
    /\ FechaInvalida(chat.analisis.pedidos[2])
    /\ Len(pedidos) = 1
    /\ pedidos[1].resumen_items = chat.analisis.pedidos[1].resumen_items
    /\ pedidos[1].estado = PENDIENTE_CONFIRMACION

\* --------------------------------------------------------------------- C21
\* C21: a socket that came with a token that does not decode, with the token
\* of no user, of an inactive user or of a user whose role is neither admin
\* nor staff has been closed with code 1008 and is in no list of the
\* registry; and every socket in the registry came with the token of an
\* active admin or staff user and is in the list of that user.
C21_SoloAdmitidos ==
    /\ \A w \in Sockets :
          sockets[w].token \in {"malo", "huerfano", "inactivo", "user"} =>
              /\ sockets[w].pc = "cerrado"
              /\ sockets[w].code = 1008
              /\ w \notin Registrados(active_connections)
    /\ \A i \in Vivas(active_connections) :
          \A w \in Rango(active_connections[i].connections) :
              \E c \in Cuentas :
                  /\ c.email = sockets[w].token
                  /\ c.is_active
                  /\ c.role \in {"admin", "staff"}
                  /\ c.id = active_connections[i].user_id

\* One socket is registered for the admin, and the other two, of an ordinary
\* user and of an inactive admin, were closed with 1008.
C21_Witness ==
    /\ sockets["w1"].token = "admin"
    /\ "w1" \in Registrados(active_connections)
    /\ sockets["w2"].token = "user"
    /\ sockets["w2"].code = 1008
    /\ sockets["w3"].token = "inactivo"
    /\ sockets["w3"].code = 1008

\* --------------------------------------------------------------------- C22
\* The step in which the fan-out under way, or one that starts, ends.
Termina == difusion.pc \in {"idle", "enviando"} /\ difusion'.pc \in {"hecho", "error"}

Intentados(d) == {d.enviados[n].ws : n \in 1..Len(d.enviados)}

Fallidos(d) == {d.enviados[n].ws : n \in {m \in 1..Len(d.enviados) : ~d.enviados[m].ok}}

\* C22: with no client connecting or leaving the registry while a fan-out is
\* under way, a broadcast, a send_personal_message or a broadcast_to_admins
\* ends without an exception and has made one send, and no more than one,
\* to every connection it found registered (for send_personal_message:
\* registered for its user), whichever of these sends failed.
C22_FalloNoCorta ==
    [][Termina =>
          /\ difusion'.pc = "hecho"
          /\ Intentados(difusion') = difusion'.inicial
          /\ Len(difusion'.enviados) = Cardinality(difusion'.inicial)]_vars

\* A fan-out has ended whose first send failed and whose second, to another
\* connection, was made and went well.
C22_Witness ==
    /\ difusion.pc = "hecho"
    /\ Len(difusion.enviados) >= 2
    /\ ~difusion.enviados[1].ok
    /\ difusion.enviados[2].ok

\* --------------------------------------------------------------------- C23
\* C23: when a fan-out ends, no connection to which one of its sends failed
\* is in the registry.
C23_PodaAlFallar ==
    [][Termina => Fallidos(difusion') \cap Registrados(active_connections') = {}]_vars

\* --------------------------------------------------------------------- C27
\* C27: when the endpoint of a socket that is in no list of the registry
\* ends, its call of disconnect leaves the registry as it is and raises no
\* error; and the list of no key of the registry is empty.
C27_DesconectarDosVeces ==
    /\ [][\A w \in Sockets :
            (/\ sockets[w].pc = "abierto"
             /\ sockets'[w].pc # "abierto"
             /\ w \notin Registrados(active_connections))
            => (/\ active_connections' = active_connections
                /\ sockets'[w].pc = "terminado")]_vars
    /\ [](\A i \in Vivas(active_connections) : active_connections[i].connections # <<>>)

\* --------------------------------------------------------------------- C28
\* C28: with clients connecting and leaving while a fan-out waits on a send,
\* the fan-out ends without an exception and has made a send to every
\* connection that was registered when it started and still is when it ends.
C28_NadieSaltado ==
    [][Termina =>
          /\ difusion'.pc = "hecho"
          /\ (difusion'.inicial \cap Registrados(active_connections))
                \subseteq Intentados(difusion')]_vars

\* C24: every exported file that has a data row has, for each of the six
\* lifecycle timestamps of an order (creation, confirmation, preparation,
\* ready, completed, cancelled), one column that holds it in every row, and
\* every row has as many cells as the header has columns, holding the same
\* attributes in the same order as every other row.
TiemposDelCiclo == CamposFecha \cup {"fecha_creacion"}

C24_TodasLasFechas ==
    \A i \in 1..Len(exportado) :
        LET archivo == exportado[i] IN
        Len(archivo.filas) > 0 =>
            /\ \A f \in 1..Len(archivo.filas) :
                  /\ Len(archivo.filas[f]) = Len(archivo.encabezados)
                  /\ \A n \in 1..Len(archivo.filas[f]) :
                        archivo.filas[f][n].atributo = archivo.filas[1][n].atributo
            /\ \A t \in TiemposDelCiclo :
                  \E n \in 1..Len(archivo.encabezados) :
                      \A f \in 1..Len(archivo.filas) :
                          archivo.filas[f][n].atributo = t

\* The rows of the table a user owns, and the rows of everyone else.
FiltrosDe(tabla, usuario_id) ==
    {tabla[i] : i \in {k \in 1..Len(tabla) : tabla[k].usuario_id = usuario_id}}

Ajenos(tabla, usuario_id) ==
    {tabla[i] : i \in {k \in 1..Len(tabla) : tabla[k].usuario_id # usuario_id}}

\* C29: guardar_filtro, actualizar_filtro and eliminar_filtro taken one at a
\* time leave each user with at most one saved filter that has is_default
\* true, and a call neither changes nor reads a filter of another user: the
\* rows of the other users are after it what they were before it, a call for
\* the id of someone else's filter is answered 404 as for an id that does
\* not exist, and the row a call returns is the caller's.
UnSoloDefault ==
    \A usuario_id \in Usuarios :
        Cardinality({f \in FiltrosDe(filtros.tabla, usuario_id) : f.is_default}) <= 1

SoloLosPropios ==
    filtros'.pc = "respondiendo" =>
        /\ Ajenos(filtros'.tabla, filtros'.usuario) = Ajenos(filtros.tabla, filtros'.usuario)
        /\ (\E f \in Ajenos(filtros.tabla, filtros'.usuario) : f.id = filtros'.filtro_id)
              => filtros'.status = 404 /\ filtros'.tabla = filtros.tabla
        /\ filtros'.status = 200 /\ filtros'.op # "eliminar_filtro"
              => filtros'.fila.usuario_id = filtros'.usuario

C29_UnDefaultPorUsuario == []UnSoloDefault /\ [][SoloLosPropios]_vars

\* actualizar_filtro has just made a filter the caller's default; the caller
\* has another filter, which is not the default, and the other user keeps a
\* default of their own.
C29_Witness ==
    /\ filtros.pc = "respondiendo"
    /\ filtros.op = "actualizar_filtro"
    /\ filtros.status = 200
    /\ filtros.fila.is_default
    /\ \E f \in FiltrosDe(filtros.tabla, filtros.usuario) :
          f.id < filtros.filtro_id /\ ~f.is_default
    /\ \E f \in Ajenos(filtros.tabla, filtros.usuario) : f.is_default

====
